---- MODULE Spec2Model ----
(***************************************************************************)
(* A model of the edit protocol of web-coding-agent: the line-based edit   *)
(* appliers (lib/multiFileManager.ts, utils/storage.ts), the multi-file    *)
(* conflict validator, and the pending-edit registry kept by app/page.tsx. *)
(*                                                                         *)
(* A JavaScript string is modelled as a sequence of one-character strings, *)
(* so that split('\n'), join('\n') and trim() are computed, not assumed.   *)
(***************************************************************************)
EXTENDS Integers, Sequences, FiniteSets, TLC

VARIABLES
    \* ---- the two batch appliers, called on one buffer and one batch
    aContent,       \* the buffer before the call
    aEdits,         \* the batch of edits
    aFn,            \* which applier was called last ("none" before any call)
    aInput,         \* the edits array as passed in (a permutation of aEdits)
    aOut,           \* the buffer after the call
    aSuccess,       \* storage.applyEdits: its success tally
    aFailed,        \* storage.applyEdits: its failed tally
    aLog            \* storage.applyEdits: one entry per applyEdit call, in order

VARIABLES
    \* ---- app/page.tsx: the state of Home, and what its handlers last did
    selectedFile,   \* useState selectedFile ("none" for null)
    fileContent,    \* useState fileContent: the text buffer
    pendingEdits,   \* useState pendingEdits: the pending edit registry
    editorRef,      \* useRef editorRef.current ("null" for null)
    stagedFor,      \* the file that was selected when the registry was last staged
    last            \* the last handler run: its name, its argument and the
                    \* number of registry entries it found

VARIABLES
    \* ---- a MultiFileChange handed to MultiFileManager
    cChanges,       \* changes.files: filePath, originalContent, edits of each file
    cValidation,    \* what validateChanges returned ("called" is FALSE before)
    cModified       \* modifiedContent of each file

VARIABLES
    \* ---- one call of a decoder of the edit protocol
    dFn,            \* which decoder was called ("none" before the call)
    dIn,            \* what the response was built from
    dText,          \* the response text (the parsed items for the structured form)
    dContent,       \* the original content the response is decoded against
    dEdits          \* the edits the decoder returned

VARIABLES
    \* ---- calls of MultiFileManager.rangesOverlap on two ranges
    oRange1,        \* a range
    oRange2,        \* another range
    oVerdict        \* oVerdict[1]: rangesOverlap(oRange1, oRange2),
                    \* oVerdict[2]: rangesOverlap(oRange2, oRange1); "none" before

VARIABLES
    \* ---- one call of CodeParser.parse on a source text
    pFn,            \* "parse" once the call is made ("none" before)
    pLang,          \* the language argument
    pCode,          \* the code argument
    pOut            \* the CodeContext returned

VARIABLES
    \* ---- the file contexts handed to the dependency analysis
    gContexts,      \* fileContexts: the entries of the Map, in insertion order
    gTarget,        \* findAffectedFiles: targetFile
    gSymbol,        \* findAffectedFiles: symbolName
    gDone,          \* the functions called so far
    gGraph,         \* what analyzeDependencies returned: the entries of the Map
    gAffected       \* what findAffectedFiles returned

VARIABLES
    \* ---- one buffer and one unified diff, given to the three appliers
    fCode,          \* the buffer
    fDiff,          \* the UnifiedDiff
    fDone,          \* the appliers called so far
    fResult         \* the text each applier returned

VARIABLES
    \* ---- app/page.tsx: the whole-file history of Home
    contentHistory, \* useState contentHistory
    historyIndex,   \* useState historyIndex
    hLog            \* the apply-code and undo events so far: for each its
                    \* name and the buffer before and after it

applyVars == <<aContent, aEdits, aFn, aInput, aOut, aSuccess, aFailed, aLog>>

pageVars == <<selectedFile, fileContent, pendingEdits, editorRef, stagedFor, last>>

changeVars == <<cChanges, cValidation, cModified>>

decodeVars == <<dFn, dIn, dText, dContent, dEdits>>

overlapVars == <<oRange1, oRange2, oVerdict>>

parseVars == <<pFn, pLang, pCode, pOut>>

depVars == <<gContexts, gTarget, gSymbol, gDone, gGraph, gAffected>>

diffVars == <<fCode, fDiff, fDone, fResult>>

historyVars == <<contentHistory, historyIndex, hLog>>

vars == <<applyVars, pageVars, changeVars, decodeVars, overlapVars,
          parseVars, depVars, diffVars, historyVars>>

\* ------------------------------------------------------------------------
\* Bounds
\* ------------------------------------------------------------------------
MaxLine == 3        \* largest line number an edit may name
MaxEdits == 2       \* largest number of edits in one batch
MaxNow == 1         \* Date.now() reads 0..MaxNow during one handler run
MaxBlocks == 2      \* largest number of blocks or hunks in one response
MaxRange == 10      \* largest line number of a range given to rangesOverlap

\* ------------------------------------------------------------------------
\* JavaScript strings and arrays
\* ------------------------------------------------------------------------
NL == "\n"
SP == " "
\* a text field that is not set on the object (undefined)
UndefText == <<"undefined">>

Min(a, b) == IF a < b THEN a ELSE b
Max(a, b) == IF a > b THEN a ELSE b

\* index of the first '\n' of s, 0 when there is none
FirstNL(s) ==
    IF \E k \in 1..Len(s) : s[k] = NL
    THEN CHOOSE k \in 1..Len(s) : s[k] = NL /\ \A j \in 1..(k-1) : s[j] # NL
    ELSE 0

\* String.prototype.split('\n'): always at least one element
RECURSIVE Split(_)
Split(s) ==
    LET k == FirstNL(s) IN
    IF k = 0 THEN <<s>>
    ELSE <<SubSeq(s, 1, k-1)>> \o Split(SubSeq(s, k+1, Len(s)))

\* a variant of join: every element is followed by '\n', the last one too
RECURSIVE JoinTerminated(_)
JoinTerminated(ls) ==
    IF Len(ls) = 0 THEN <<>>
    ELSE ls[1] \o <<NL>> \o JoinTerminated(Tail(ls))

\* Array.prototype.join('\n')
RECURSIVE Join(_)
Join(ls) ==
    IF Len(ls) = 0 THEN <<>>
    ELSE IF Len(ls) = 1 THEN ls[1]
    ELSE ls[1] \o <<NL>> \o Join(Tail(ls))

\* Array.prototype.flatMap / flat(): the arrays of an array, concatenated
RECURSIVE Flatten(_)
Flatten(seqs) == IF seqs = <<>> THEN <<>> ELSE Head(seqs) \o Flatten(Tail(seqs))

IsSpace(c) == c = SP \/ c = NL

\* String.prototype.trim()
Trim(s) ==
    IF \A k \in 1..Len(s) : IsSpace(s[k]) THEN <<>>
    ELSE LET lo == CHOOSE k \in 1..Len(s) :
                      ~IsSpace(s[k]) /\ \A j \in 1..(k-1) : IsSpace(s[j])
             hi == CHOOSE k \in 1..Len(s) :
                      ~IsSpace(s[k]) /\ \A j \in (k+1)..Len(s) : IsSpace(s[j])
         IN SubSeq(s, lo, hi)

\* Array.prototype.splice(start, deleteCount, ...items): the array afterwards
Splice(arr, start, deleteCount, items) ==
    LET len == Len(arr)
        actualStart == IF start < 0 THEN Max(len + start, 0) ELSE Min(start, len)
        actualDelete == Min(Max(deleteCount, 0), len - actualStart)
    IN SubSeq(arr, 1, actualStart) \o items
         \o SubSeq(arr, actualStart + actualDelete + 1, len)

\* [...edits].sort((a, b) => b.startLine - a.startLine): stable, descending
InsertDesc(sorted, e) ==
    LET keep == {k \in 1..Len(sorted) : sorted[k].startLine >= e.startLine}
        n == IF keep = {} THEN 0 ELSE CHOOSE k \in keep : \A j \in keep : j <= k
    IN SubSeq(sorted, 1, n) \o <<e>> \o SubSeq(sorted, n + 1, Len(sorted))

\* a variant of SortDesc: the copy is taken and the sort is left out
SortDescUnsorted(edits) == edits

RECURSIVE SortDescFrom(_, _)
SortDescFrom(edits, acc) ==
    IF edits = <<>> THEN acc
    ELSE SortDescFrom(Tail(edits), InsertDesc(acc, Head(edits)))

SortDesc(edits) == SortDescFrom(edits, <<>>)

\* ------------------------------------------------------------------------
\* MultiFileManager.applyEdits
\* ------------------------------------------------------------------------
RECURSIVE SpliceAll(_, _)
SpliceAll(lines, sortedEdits) ==
    IF sortedEdits = <<>> THEN lines
    ELSE LET edit == Head(sortedEdits)
             newLines == Split(edit.newCode)
         IN SpliceAll(Splice(lines, edit.startLine - 1,
                             edit.endLine - edit.startLine + 1, newLines),
                      Tail(sortedEdits))

\* a variant of SpliceAll: the delete count is one short (endLine - startLine)
RECURSIVE SpliceAllShort(_, _)
SpliceAllShort(lines, sortedEdits) ==
    IF sortedEdits = <<>> THEN lines
    ELSE LET edit == Head(sortedEdits)
             newLines == Split(edit.newCode)
         IN SpliceAllShort(Splice(lines, edit.startLine - 1,
                                  edit.endLine - edit.startLine, newLines),
                           Tail(sortedEdits))

MFM_applyEditsShort(originalContent, edits) ==
    Join(SpliceAllShort(Split(originalContent), SortDesc(edits)))

MFM_applyEdits(originalContent, edits) ==
    Join(SpliceAll(Split(originalContent), SortDesc(edits)))

\* a variant of rangesOverlap: only the ends of range1 are tested
rangesOverlapOneSided(range1, range2) ==
    \/ (range1.start >= range2.start /\ range1.start <= range2.end)
    \/ (range1.end >= range2.start /\ range1.end <= range2.end)

\* MultiFileManager.rangesOverlap
rangesOverlap(range1, range2) ==
    \/ (range1.start >= range2.start /\ range1.start <= range2.end)
    \/ (range1.end >= range2.start /\ range1.end <= range2.end)
    \/ (range2.start >= range1.start /\ range2.start <= range1.end)
    \/ (range2.end >= range1.start /\ range2.end <= range1.end)

RangeOf(edit) == [start |-> edit.startLine, end |-> edit.endLine]

\* ------------------------------------------------------------------------
\* AIPromptBuilder.createPreview
\* ------------------------------------------------------------------------
RECURSIVE createPreviewLoop(_, _)
\* the for loop over sortedEdits: split, splice, join for each edit
createPreviewLoop(code, sortedEdits) ==
    IF sortedEdits = <<>> THEN code
    ELSE LET edit == Head(sortedEdits)
             lines == Split(code)
             startIdx == edit.startLine - 1
             endIdx == edit.endLine
             newLines == Split(edit.newCode)
         IN createPreviewLoop(Join(Splice(lines, startIdx, endIdx - startIdx, newLines)),
                              Tail(sortedEdits))

createPreview(originalCode, edits) == createPreviewLoop(originalCode, SortDesc(edits))

\* ------------------------------------------------------------------------
\* utils/storage.ts: applyEdit and applyEdits on a Monaco text model.
\* The model's value is a string; a position (line, column) is validated
\* the way ITextModel.validatePosition does (clamped into the text).
\* ------------------------------------------------------------------------
LineCount(value) == Len(Split(value))

\* ITextModel.getLineMaxColumn: defined for 1..lineCount, throws otherwise
LineInModel(value, line) == line >= 1 /\ line <= LineCount(value)

getLineMaxColumn(value, line) == Len(Split(value)[line]) + 1

RECURSIVE LineStart(_, _)
\* number of characters before the first character of `line`
LineStart(lines, line) ==
    IF line <= 1 THEN 0
    ELSE LineStart(lines, line - 1) + Len(lines[line - 1]) + 1

\* offset of a validated position
OffsetAt(value, line, column) ==
    LET lines == Split(value)
        l == Max(1, Min(line, Len(lines)))
        c == IF line < 1 THEN 1
             ELSE IF line > Len(lines) THEN Len(lines[l]) + 1
             ELSE Max(1, Min(column, Len(lines[l]) + 1))
    IN LineStart(lines, l) + c - 1

\* new monaco.Range(...): start and end are swapped when given in reverse
MonacoRange(startLine, startColumn, endLine, endColumn) ==
    IF startLine > endLine \/ (startLine = endLine /\ startColumn > endColumn)
    THEN [sl |-> endLine, sc |-> endColumn, el |-> startLine, ec |-> startColumn]
    ELSE [sl |-> startLine, sc |-> startColumn, el |-> endLine, ec |-> endColumn]

getValueInRange(value, r) ==
    SubSeq(value, OffsetAt(value, r.sl, r.sc) + 1, OffsetAt(value, r.el, r.ec))

\* editor.executeEdits with one operation: the model's value afterwards
executeEdit(value, r, text) ==
    SubSeq(value, 1, OffsetAt(value, r.sl, r.sc)) \o text
        \o SubSeq(value, OffsetAt(value, r.el, r.ec) + 1, Len(value))

\* edit.startColumn || 1 ; edit.endColumn || model.getLineMaxColumn(edit.endLine)
EditRange(value, edit) ==
    MonacoRange(edit.startLine,
                IF edit.startColumn = 0 THEN 1 ELSE edit.startColumn,
                edit.endLine,
                IF edit.endColumn = 0 THEN getLineMaxColumn(value, edit.endLine)
                ELSE edit.endColumn)

\* applyEdit(editor, edit): its return value and the model's value afterwards
applyEdit(value, edit) ==
    IF edit.endColumn = 0 /\ ~LineInModel(value, edit.endLine)
    THEN [ok |-> FALSE, value |-> value]            \* getLineMaxColumn throws: catch
    ELSE LET r == EditRange(value, edit)
             currentText == getValueInRange(value, r)
         IN IF edit.oldText # <<>> /\ Trim(currentText) # Trim(edit.oldText)
            THEN [ok |-> FALSE, value |-> value]
            ELSE [ok |-> TRUE, value |-> executeEdit(value, r, edit.newText)]

RECURSIVE applyEditsLoop(_, _)
\* the for loop of applyEdits over sortedEdits, from the state st
applyEditsLoop(st, sortedEdits) ==
    IF sortedEdits = <<>> THEN st
    ELSE LET edit == Head(sortedEdits)
             res == applyEdit(st.value, edit)
         IN applyEditsLoop(
              [value |-> res.value,
               success |-> IF res.ok THEN st.success + 1 ELSE st.success,
               failed |-> IF res.ok THEN st.failed ELSE st.failed + 1,
               log |-> Append(st.log, [edit |-> edit, before |-> st.value,
                                       after |-> res.value, ok |-> res.ok])],
              Tail(sortedEdits))

\* a variant of applyEditsLoop: the loop gives up at the first edit that fails
RECURSIVE applyEditsLoopAbort(_, _)
applyEditsLoopAbort(st, sortedEdits) ==
    IF sortedEdits = <<>> THEN st
    ELSE LET edit == Head(sortedEdits)
             res == applyEdit(st.value, edit)
             nxt == [value |-> res.value,
                     success |-> IF res.ok THEN st.success + 1 ELSE st.success,
                     failed |-> IF res.ok THEN st.failed ELSE st.failed + 1,
                     log |-> Append(st.log, [edit |-> edit, before |-> st.value,
                                             after |-> res.value, ok |-> res.ok])]
         IN IF res.ok THEN applyEditsLoopAbort(nxt, Tail(sortedEdits)) ELSE nxt

applyEditsAbort(value, edits) ==
    applyEditsLoopAbort([value |-> value, success |-> 0, failed |-> 0, log |-> <<>>],
                        SortDesc(edits))

\* applyEdits(editor, edits)
applyEdits(value, edits) ==
    applyEditsLoop([value |-> value, success |-> 0, failed |-> 0, log |-> <<>>],
                   SortDesc(edits))

\* ------------------------------------------------------------------------
\* Inputs of the applier specification
\* ------------------------------------------------------------------------
Buffers ==
    { <<"a", NL, "b", NL, "c", NL>>,      \* "a\nb\nc\n": four lines, the last empty
      <<"a", NL, "b">> }                  \* "a\nb"

\* the (oldText, newText) pairs of the edits: oldText absent or "b",
\* newText of one line or of two
TextPairSeq ==
    << [old |-> <<>>, new |-> <<"X">>],
       [old |-> <<>>, new |-> <<"X", NL, "Y">>],
       [old |-> <<"b">>, new |-> <<"X", NL, "Y">>] >>

\* a TextEdit (types/editor.types.ts); a column of 0 stands for an omitted one
TextEdits ==
    { [startLine |-> s, endLine |-> e, startColumn |-> 0, endColumn |-> 0,
       oldText |-> TextPairSeq[t].old, newText |-> TextPairSeq[t].new] :
        s \in 1..MaxLine, e \in 1..MaxLine, t \in 1..Len(TextPairSeq) }

ValidTextEdits == { e \in TextEdits : e.startLine <= e.endLine }

\* a total order on the edits, used to build each batch once
EditKey(e) ==
    (e.startLine * (MaxLine + 1) + e.endLine) * (Len(TextPairSeq) + 1)
        + (CHOOSE k \in 1..Len(TextPairSeq) :
             TextPairSeq[k] = [old |-> e.oldText, new |-> e.newText])

Batches(S) ==
    UNION { { b \in [1..n -> S] :
                \A i \in 1..(n-1) : EditKey(b[i]) <= EditKey(b[i+1]) } :
            n \in 0..MaxEdits }

Perms(n) == { p \in [1..n -> 1..n] : \A i, j \in 1..n : p[i] = p[j] => i = j }

Permute(seq, p) == [i \in 1..Len(seq) |-> seq[p[i]]]

\* the same edit in the shape of FileEdit['edits'] (lib/multiFileManager.ts)
ToFileEdit(e) ==
    [startLine |-> e.startLine, endLine |-> e.endLine,
     oldCode |-> e.oldText, newCode |-> e.newText]

ToFileEdits(edits) == [i \in 1..Len(edits) |-> ToFileEdit(edits[i])]

\* ------------------------------------------------------------------------
\* MultiFileManager.validateChanges
\* ------------------------------------------------------------------------
\* the errors of one file: one per overlapping pair i < j, in loop order; each
\* stands for `Conflicting edits in ${filePath}: lines a-b and c-d`
\* a variant of the pair loop: from the second row on the inner loop starts
\* at j = i, so an edit is compared with itself
RECURSIVE FileErrorsSelfPairs(_, _, _)
FileErrorsSelfPairs(fileEdit, i, j) ==
    LET n == Len(fileEdit.edits) IN
    IF i > n THEN <<>>
    ELSE IF j > n THEN FileErrorsSelfPairs(fileEdit, i + 1, i + 1)
    ELSE (IF rangesOverlap(RangeOf(fileEdit.edits[i]), RangeOf(fileEdit.edits[j]))
          THEN << [filePath |-> fileEdit.filePath,
                   range1 |-> RangeOf(fileEdit.edits[i]),
                   range2 |-> RangeOf(fileEdit.edits[j])] >>
          ELSE <<>>)
         \o FileErrorsSelfPairs(fileEdit, i, j + 1)

RECURSIVE FileErrors(_, _, _)
FileErrors(fileEdit, i, j) ==
    LET n == Len(fileEdit.edits) IN
    IF i > n THEN <<>>
    ELSE IF j > n THEN FileErrors(fileEdit, i + 1, i + 2)
    ELSE (IF rangesOverlap(RangeOf(fileEdit.edits[i]), RangeOf(fileEdit.edits[j]))
          THEN << [filePath |-> fileEdit.filePath,
                   range1 |-> RangeOf(fileEdit.edits[i]),
                   range2 |-> RangeOf(fileEdit.edits[j])] >>
          ELSE <<>>)
         \o FileErrors(fileEdit, i, j + 1)

validateChanges(files) ==
    LET errors == Flatten([f \in 1..Len(files) |-> FileErrors(files[f], 1, 2)])
    IN [valid |-> Len(errors) = 0, errors |-> errors]

ChangeIdle ==
    /\ cChanges = <<>>
    /\ cValidation = [called |-> FALSE, valid |-> TRUE, errors |-> <<>>]
    /\ cModified = <<>>

DecodeIdle ==
    /\ dFn = "none"
    /\ dIn = <<>>
    /\ dText = <<>>
    /\ dContent = <<>>
    /\ dEdits = <<>>

OverlapIdle ==
    /\ oRange1 = [start |-> 1, end |-> 1]
    /\ oRange2 = [start |-> 1, end |-> 1]
    /\ oVerdict = <<"none", "none">>

ParseIdle ==
    /\ pFn = "none"
    /\ pLang = <<>>
    /\ pCode = <<>>
    /\ pOut = <<>>

DepsIdle ==
    /\ gContexts = <<>>
    /\ gTarget = <<>>
    /\ gSymbol = <<>>
    /\ gDone = {}
    /\ gGraph = <<>>
    /\ gAffected = <<>>

DiffIdle ==
    /\ fCode = <<>>
    /\ fDiff = <<>>
    /\ fDone = {}
    /\ fResult = <<>>

\* the history of Home after construction
HistoryIdle ==
    /\ contentHistory = <<>>
    /\ historyIndex = -1
    /\ hLog = <<>>

RestIdle == ParseIdle /\ DepsIdle /\ DiffIdle /\ HistoryIdle

\* the state of Home after construction (the useState and useRef initial values)
PageIdle ==
    /\ selectedFile = "none"
    /\ fileContent = <<>>
    /\ pendingEdits = <<>>
    /\ editorRef = "null"
    /\ stagedFor = "none"
    /\ last = [op |-> "init", id |-> <<"none">>, n |-> 0]

ApplyInit ==
    /\ PageIdle
    /\ ChangeIdle
    /\ DecodeIdle
    /\ OverlapIdle
    /\ RestIdle
    /\ aContent \in Buffers
    /\ aEdits \in Batches(ValidTextEdits)
    /\ aFn = "none"
    /\ aInput = <<>>
    /\ aOut = <<>>
    /\ aSuccess = 0
    /\ aFailed = 0
    /\ aLog = <<>>

\* one call of MultiFileManager.applyEdits, the batch given in any order
CallMultiFileApplyEdits ==
    /\ aFn = "none"
    /\ \E p \in Perms(Len(aEdits)) :
         /\ aInput' = Permute(aEdits, p)
         /\ aOut' = MFM_applyEdits(aContent, ToFileEdits(Permute(aEdits, p)))
    /\ aFn' = "MultiFileManager.applyEdits"
    /\ aSuccess' = 0 /\ aFailed' = 0 /\ aLog' = <<>>
    /\ UNCHANGED <<aContent, aEdits, pageVars, changeVars, decodeVars, overlapVars,
                 parseVars, depVars, diffVars, historyVars>>

\* one call of storage.applyEdits on an editor holding the buffer
CallEditorApplyEdits ==
    /\ aFn = "none"
    /\ \E p \in Perms(Len(aEdits)) :
         LET res == applyEdits(aContent, Permute(aEdits, p)) IN
         /\ aInput' = Permute(aEdits, p)
         /\ aOut' = res.value
         /\ aSuccess' = res.success
         /\ aFailed' = res.failed
         /\ aLog' = res.log
    /\ aFn' = "applyEdits"
    /\ UNCHANGED <<aContent, aEdits, pageVars, changeVars, decodeVars, overlapVars,
                 parseVars, depVars, diffVars, historyVars>>

\* one call of AIPromptBuilder.createPreview
CallCreatePreview ==
    /\ aFn = "none"
    /\ \E p \in Perms(Len(aEdits)) :
         /\ aInput' = Permute(aEdits, p)
         /\ aOut' = createPreview(aContent, ToFileEdits(Permute(aEdits, p)))
    /\ aFn' = "createPreview"
    /\ aSuccess' = 0 /\ aFailed' = 0 /\ aLog' = <<>>
    /\ UNCHANGED <<aContent, aEdits, pageVars, changeVars, decodeVars, overlapVars,
                 parseVars, depVars, diffVars, historyVars>>

ApplyNext == CallMultiFileApplyEdits \/ CallEditorApplyEdits \/ CallCreatePreview

SpecApply == ApplyInit /\ [][ApplyNext]_vars

\* ------------------------------------------------------------------------
\* Notions the claims about the appliers are stated in
\* ------------------------------------------------------------------------
PairwiseNonOverlapping(edits) ==
    \A i, j \in 1..Len(edits) :
        i < j => \/ edits[i].endLine < edits[j].startLine
                 \/ edits[j].endLine < edits[i].startLine

InBounds(content, edits) ==
    \A i \in 1..Len(edits) :
        /\ 1 <= edits[i].startLine
        /\ edits[i].startLine <= edits[i].endLine
        /\ edits[i].endLine <= Len(Split(content))

\* the text of lines s..e of a buffer
LinesText(content, s, e) == Join(SubSeq(Split(content), s, e))

RECURSIVE ReplaceFrom(_, _, _)
\* the simultaneous replacement, read off the original lines from line i on
ReplaceFrom(lines, edits, i) ==
    IF i > Len(lines) THEN <<>>
    ELSE IF \E k \in 1..Len(edits) : edits[k].startLine = i
    THEN LET k == CHOOSE k \in 1..Len(edits) : edits[k].startLine = i
         IN Split(edits[k].newText) \o ReplaceFrom(lines, edits, edits[k].endLine + 1)
    ELSE <<lines[i]>> \o ReplaceFrom(lines, edits, i + 1)

SimultaneousReplacement(content, edits) ==
    Join(ReplaceFrom(Split(content), edits, 1))

\* the edits of a log that were applied
Succeeded(log) ==
    LET oks == SelectSeq(log, LAMBDA en : en.ok)
    IN [i \in 1..Len(oks) |-> oks[i].edit]

\* ------------------------------------------------------------------------
\* C2: for a batch whose line ranges are pairwise non-overlapping, every
\* permutation of the input array gives the same resulting buffer, with
\* either applier.
\* ------------------------------------------------------------------------
C2_OrderIndependent ==
    (aFn # "none" /\ PairwiseNonOverlapping(aEdits)) =>
        /\ aFn = "MultiFileManager.applyEdits" =>
              aOut = MFM_applyEdits(aContent, ToFileEdits(aEdits))
        /\ aFn = "applyEdits" =>
              /\ aOut = applyEdits(aContent, aEdits).value
              /\ aSuccess = applyEdits(aContent, aEdits).success

\* a permuted two-edit batch whose lower edit grows the buffer was applied
C2_Witness ==
    /\ aFn = "MultiFileManager.applyEdits"
    /\ Len(aEdits) = 2
    /\ PairwiseNonOverlapping(aEdits)
    /\ aInput # aEdits
    /\ \E i \in 1..2 : Len(Split(aEdits[i].newText)) >
                         aEdits[i].endLine - aEdits[i].startLine + 1
    /\ aOut # aContent

\* ------------------------------------------------------------------------
\* C3: for a batch of pairwise non-overlapping in-bounds edits the result is
\* the simultaneous replacement computed on the original buffer: each applied
\* edit's new text stands in place of original lines startLine..endLine and
\* every other original line is kept, in order (with storage.applyEdits the
\* applied edits are those that passed the old-text check).
\* ------------------------------------------------------------------------
C3_SimultaneousReplacement ==
    (aFn # "none" /\ PairwiseNonOverlapping(aEdits) /\ InBounds(aContent, aEdits)) =>
        /\ aFn = "MultiFileManager.applyEdits" =>
              aOut = SimultaneousReplacement(aContent, aEdits)
        /\ aFn = "applyEdits" =>
              aOut = SimultaneousReplacement(aContent, Succeeded(aLog))

\* two in-bounds edits, the upper one shrinking and the lower one growing
\* the buffer, were applied by MultiFileManager.applyEdits
C3_Witness ==
    /\ aFn = "MultiFileManager.applyEdits"
    /\ Len(aEdits) = 2
    /\ PairwiseNonOverlapping(aEdits)
    /\ InBounds(aContent, aEdits)
    /\ \E i, j \in 1..2 :
         /\ aEdits[i].startLine < aEdits[j].startLine
         /\ Len(Split(aEdits[i].newText)) < aEdits[i].endLine - aEdits[i].startLine + 1
         /\ Len(Split(aEdits[j].newText)) > aEdits[j].endLine - aEdits[j].startLine + 1

\* ------------------------------------------------------------------------
\* C4: in a batch application by storage.applyEdits an edit whose oldText is
\* present and differs from the text in its declared range is counted as
\* failed and leaves the buffer as it was, and the batch goes on: every edit
\* of the batch is attempted, and one whose range is in the buffer and whose
\* oldText is absent or matches is applied.
\* ------------------------------------------------------------------------
ReplaceLines(content, s, e, newText) ==
    LET lines == Split(content)
    IN Join(SubSeq(lines, 1, s - 1) \o Split(newText) \o SubSeq(lines, e + 1, Len(lines)))

Mismatch(en) ==
    /\ en.edit.oldText # <<>>
    /\ en.edit.endLine <= Len(Split(en.before))
    /\ Trim(LinesText(en.before, en.edit.startLine, en.edit.endLine))
         # Trim(en.edit.oldText)

Count(seq, x) == Cardinality({k \in 1..Len(seq) : seq[k] = x})

C4_MismatchSkipsOneEdit ==
    aFn = "applyEdits" =>
        /\ Len(aLog) = Len(aInput)
        /\ \A i \in 1..Len(aInput) :
             Count([k \in 1..Len(aLog) |-> aLog[k].edit], aInput[i])
                = Count(aInput, aInput[i])
        /\ \A k \in 1..Len(aLog) :
             /\ aLog[k].before = IF k = 1 THEN aContent ELSE aLog[k-1].after
             /\ Mismatch(aLog[k]) =>
                  ~aLog[k].ok /\ aLog[k].after = aLog[k].before
             /\ (aLog[k].edit.endLine <= Len(Split(aLog[k].before)) /\ ~Mismatch(aLog[k])) =>
                  /\ aLog[k].ok
                  /\ aLog[k].after = ReplaceLines(aLog[k].before, aLog[k].edit.startLine,
                                                  aLog[k].edit.endLine, aLog[k].edit.newText)
        /\ aOut = IF aLog = <<>> THEN aContent ELSE aLog[Len(aLog)].after
        /\ aFailed = Cardinality({k \in 1..Len(aLog) : ~aLog[k].ok})
        /\ aSuccess = Cardinality({k \in 1..Len(aLog) : aLog[k].ok})

\* a mismatching edit failed first and a later edit of the batch was applied
C4_Witness ==
    /\ aFn = "applyEdits"
    /\ Len(aLog) = 2
    /\ Mismatch(aLog[1]) /\ ~aLog[1].ok
    /\ aLog[2].ok
    /\ aLog[2].edit.oldText # <<>>
    /\ aFailed = 1 /\ aSuccess = 1
    /\ aOut # aContent

\* ------------------------------------------------------------------------
\* lib/aiPromptBuilder.ts: the structured decoder, as far as the registry
\* needs it
\* ------------------------------------------------------------------------
\* AIPromptBuilder.createDiffLines: '-' lines of oldCode, then '+' lines of newCode
createDiffLines(oldCode, newCode) ==
    LET oldLines == Split(oldCode)
        newLines == Split(newCode)
    IN [i \in 1..Len(oldLines) |-> <<"-">> \o oldLines[i]]
         \o [i \in 1..Len(newLines) |-> <<"+">> \o newLines[i]]

\* AIPromptBuilder.parseAIResponse, on the parsed edits array: one UnifiedDiff
\* of one hunk per item
parseAIResponse(items) ==
    [i \in 1..Len(items) |->
        [fileName |-> items[i].fileName,
         hunks |-> << [oldStart |-> items[i].oldStart,
                       oldLines |-> items[i].oldLines,
                       lines |-> createDiffLines(items[i].oldCode, items[i].newCode)] >>]]

\* lines starting with `sign`, the sign removed, joined with '\n'
SignedLines(lines, sign) ==
    LET sel == SelectSeq(lines, LAMBDA l : Len(l) > 0 /\ l[1] = sign)
    IN Join([i \in 1..Len(sel) |-> Tail(sel[i])])

\* the id `${diff.fileName}-${hunk.oldStart}-${Date.now()}-${index}`
DiffEditId(fileName, oldStart, stamp, index) == <<fileName, oldStart, stamp, index>>

\* AIPromptBuilder.diffToPendingEdits; stamps[d] is what Date.now() returned
\* while diff d was converted, index is the hunk's index within its diff
diffToPendingEdits(diffs, stamps) ==
    Flatten([d \in 1..Len(diffs) |->
        [h \in 1..Len(diffs[d].hunks) |->
            [id |-> DiffEditId(diffs[d].fileName, diffs[d].hunks[h].oldStart,
                               stamps[d], h - 1),
             fileName |-> diffs[d].fileName,
             startLine |-> diffs[d].hunks[h].oldStart,
             endLine |-> diffs[d].hunks[h].oldStart + diffs[d].hunks[h].oldLines - 1,
             startColumn |-> 1,
             endColumn |-> 999,
             oldText |-> UndefText,
             newText |-> UndefText,
             oldCode |-> SignedLines(diffs[d].hunks[h].lines, "-"),
             newCode |-> SignedLines(diffs[d].hunks[h].lines, "+")]]])

\* ------------------------------------------------------------------------
\* components/AIChat.tsx handleSend, from the arrival of the response on,
\* and app/page.tsx
\* ------------------------------------------------------------------------
Files == {"A", "B"}

\* what the file handle of a path reads
FileText(path) ==
    IF path = "A" THEN <<"a", NL, "b", NL, "c", NL>> ELSE <<"p", NL, "q">>

\* items of the edits array of a structured response (EditResponse)
StructuredItems ==
    { [fileName |-> "A", oldStart |-> 1, oldLines |-> 1,
       oldCode |-> <<"a">>, newCode |-> <<"X">>],
      [fileName |-> "B", oldStart |-> 2, oldLines |-> 1,
       oldCode |-> <<"q">>, newCode |-> <<"X", NL, "Y">>] }

\* TextEdits the API route decoded from SEARCH/REPLACE blocks (data.edits)
RouteEdits ==
    { [startLine |-> 2, endLine |-> 2, startColumn |-> 0, endColumn |-> 0,
       oldText |-> <<"b">>, newText |-> <<"X">>] }

NonEmptySeqs(S) == UNION { [1..n -> S] : n \in 1..MaxEdits }

\* what n successive calls of Date.now() may return: non-decreasing readings
Stamps(n) ==
    { st \in [1..n -> 0..MaxNow] : \A i \in 1..(n-1) : st[i] <= st[i+1] }

\* structuredEdits.map((edit, index) => ({...edit, id: edit.id || `edit-${Date.now()}-${index}`,
\*                                        applied: false, rejected: false}))
WithIds(structuredEdits, stamps) ==
    [i \in 1..Len(structuredEdits) |->
        LET edit == structuredEdits[i] IN
        [id |-> IF "id" \in DOMAIN edit THEN edit.id ELSE <<"edit", stamps[i], i - 1>>,
         fileName |-> IF "fileName" \in DOMAIN edit THEN edit.fileName ELSE "undefined",
         startLine |-> edit.startLine,
         endLine |-> edit.endLine,
         startColumn |-> edit.startColumn,
         endColumn |-> edit.endColumn,
         oldText |-> edit.oldText,
         newText |-> edit.newText,
         oldCode |-> IF "oldCode" \in DOMAIN edit THEN edit.oldCode ELSE UndefText,
         newCode |-> IF "newCode" \in DOMAIN edit THEN edit.newCode ELSE UndefText,
         applied |-> FALSE,
         rejected |-> FALSE]]

\* a variant of handleApplyEdits: the new batch is queued behind the pending one
HandleApplyEditsQueued(edits) ==
    /\ pendingEdits' = pendingEdits \o edits
    /\ stagedFor' = selectedFile
    /\ last' = [op |-> "stage", id |-> <<"none">>, n |-> Len(pendingEdits)]
    /\ UNCHANGED <<selectedFile, fileContent, editorRef, applyVars, changeVars, decodeVars, overlapVars,
                 parseVars, depVars, diffVars, historyVars>>

\* handleApplyEdits(edits), called by handleSend through onApplyEdits
HandleApplyEdits(edits) ==
    /\ pendingEdits' = edits
    /\ stagedFor' = selectedFile
    /\ last' = [op |-> "stage", id |-> <<"none">>, n |-> Len(pendingEdits)]
    /\ UNCHANGED <<selectedFile, fileContent, editorRef, applyVars, changeVars, decodeVars, overlapVars,
                 parseVars, depVars, diffVars, historyVars>>

\* handleSend with action 'edit' or 'optimize': the response text parses as a
\* structured block with a non-empty edits array
HandleSendStructured ==
    /\ selectedFile # "none"
    /\ \E items \in NonEmptySeqs(StructuredItems) :
       \E stamps \in Stamps(Len(items)) :
         \* every edit has an id already: the map reads no clock
         HandleApplyEdits(
            WithIds(diffToPendingEdits(parseAIResponse(items), stamps), stamps))

\* handleSend when the text does not parse as a structured block and the
\* route returned data.edits
HandleSendRouteEdits ==
    /\ selectedFile # "none"
    /\ \E edits \in NonEmptySeqs(RouteEdits) :
       \E stamps \in Stamps(Len(edits)) :
         HandleApplyEdits(WithIds(edits, stamps))

\* a response text as parseAIResponse sees it: whether JSON.parse accepts it,
\* what its edits key holds, and the items when it holds a list. An item
\* whose oldCode is not set cannot be converted (createDiffLines calls
\* split on undefined, which throws)
UndecodableResponses ==
    LET good == [fileName |-> "A", oldStart |-> 1, oldLines |-> 1,
                 oldCode |-> <<"a">>, newCode |-> <<"X">>]
        bad == [fileName |-> "A", oldStart |-> 2, oldLines |-> 1,
                oldCode |-> UndefText, newCode |-> <<"X">>]
    IN { [wellFormed |-> FALSE, editsKind |-> "list", items |-> <<>>],
         [wellFormed |-> TRUE, editsKind |-> "absent", items |-> <<>>],
         [wellFormed |-> TRUE, editsKind |-> "notList", items |-> <<>>],
         [wellFormed |-> TRUE, editsKind |-> "list", items |-> <<bad>>],
         [wellFormed |-> TRUE, editsKind |-> "list", items |-> <<good, bad>>] }

ItemThrows(item) == item.oldCode = UndefText \/ item.newCode = UndefText

\* a variant of parseAIResponse: an item that cannot be converted ends the
\* map, and the items before it are returned
parseAIResponseTextPartial(response) ==
    IF ~response.wellFormed \/ response.editsKind # "list"
    THEN [threw |-> TRUE, diffs |-> <<>>]
    ELSE LET bads == {i \in 1..Len(response.items) : ItemThrows(response.items[i])}
             n == IF bads = {} THEN Len(response.items)
                  ELSE (CHOOSE i \in bads : \A j \in bads : i <= j) - 1
         IN [threw |-> FALSE, diffs |-> parseAIResponse(SubSeq(response.items, 1, n))]

\* AIPromptBuilder.parseAIResponse on a response text: JSON.parse, the check
\* of parsed.edits, the map; any exception is rethrown as one Error
parseAIResponseText(response) ==
    IF \/ ~response.wellFormed
       \/ response.editsKind # "list"
       \/ \E i \in 1..Len(response.items) : ItemThrows(response.items[i])
    THEN [threw |-> TRUE, diffs |-> <<>>]
    ELSE [threw |-> FALSE, diffs |-> parseAIResponse(response.items)]

\* handleSend with action 'edit' or 'optimize' when the response text cannot
\* be decoded as a structured block and the route returned no data.edits:
\* the catch leaves structuredEdits unset and onApplyEdits is not called
HandleSendUndecodable ==
    /\ selectedFile # "none"
    /\ \E response \in UndecodableResponses :
       \E stamps \in Stamps(Len(response.items)) :
         LET res == parseAIResponseText(response)
             structuredEdits == IF res.threw THEN <<>>
                                ELSE diffToPendingEdits(res.diffs, stamps)
         IN /\ pendingEdits' = IF Len(structuredEdits) > 0
                                THEN WithIds(structuredEdits, stamps)
                                ELSE pendingEdits
            /\ stagedFor' = IF Len(structuredEdits) > 0 THEN selectedFile
                             ELSE stagedFor
    /\ last' = [op |-> "sendUndecodable", id |-> <<"none">>, n |-> Len(pendingEdits)]
    /\ UNCHANGED <<selectedFile, fileContent, editorRef, applyVars, changeVars, decodeVars, overlapVars,
                 parseVars, depVars, diffVars, historyVars>>

\* handleFileSelect(path), for a path that has a file handle whose read succeeds
HandleFileSelect(path) ==
    /\ selectedFile' = path
    /\ fileContent' = FileText(path)
    /\ last' = [op |-> "select", id |-> <<"none">>, n |-> Len(pendingEdits)]
    /\ UNCHANGED <<pendingEdits, editorRef, stagedFor, applyVars, changeVars, decodeVars, overlapVars,
                 parseVars, depVars, diffVars, historyVars>>

\* prev.filter(e => e.id !== editId)
WithoutId(prev, editId) == SelectSeq(prev, LAMBDA e : e.id # editId)

\* the ids the accept and reject buttons may pass, and one no entry carries
ButtonIds == {pendingEdits[k].id : k \in 1..Len(pendingEdits)} \cup {<<"none">>}

\* handleAcceptEdit(editId)
HandleAcceptEdit(editId) ==
    /\ pendingEdits' = WithoutId(pendingEdits, editId)
    /\ last' = [op |-> "acceptOne", id |-> editId, n |-> Len(pendingEdits)]
    /\ UNCHANGED <<selectedFile, fileContent, editorRef, stagedFor, applyVars, changeVars, decodeVars, overlapVars,
                 parseVars, depVars, diffVars, historyVars>>

\* handleRejectEdit(editId)
HandleRejectEdit(editId) ==
    /\ pendingEdits' = WithoutId(pendingEdits, editId)
    /\ last' = [op |-> "rejectOne", id |-> editId, n |-> Len(pendingEdits)]
    /\ UNCHANGED <<selectedFile, fileContent, editorRef, stagedFor, applyVars, changeVars, decodeVars, overlapVars,
                 parseVars, depVars, diffVars, historyVars>>

\* the text Monaco inserts for an operation's text (none when it is not set)
OperationText(t) == IF t = UndefText THEN <<>> ELSE t

\* whether two of the operations' ranges overlap (executeEdits then throws)
OperationsOverlap(value, edits) ==
    \E i, j \in 1..Len(edits) :
        /\ i # j
        /\ LET ri == EditRange(value, edits[i])
               rj == EditRange(value, edits[j])
           IN /\ OffsetAt(value, ri.sl, ri.sc) <= OffsetAt(value, rj.sl, rj.sc)
              /\ OffsetAt(value, rj.sl, rj.sc) < OffsetAt(value, ri.el, ri.ec)

RECURSIVE ExecuteAll(_, _)
\* executeEdits with several non-overlapping operations, bottom one first
ExecuteAll(value, sortedEdits) ==
    IF sortedEdits = <<>> THEN value
    ELSE ExecuteAll(executeEdit(value, EditRange(value, Head(sortedEdits)),
                                OperationText(Head(sortedEdits).newText)),
                    Tail(sortedEdits))

\* handleAcceptAllEdits()
HandleAcceptAllEdits ==
    /\ last' = [op |-> "acceptAll", id |-> <<"none">>, n |-> Len(pendingEdits)]
    /\ IF editorRef = "null" \/ Len(pendingEdits) = 0
       THEN UNCHANGED <<fileContent, pendingEdits>>
       ELSE LET sortedEdits == SortDesc(pendingEdits)
                throws ==
                  \/ \E k \in 1..Len(sortedEdits) :
                        /\ sortedEdits[k].endColumn = 0
                        /\ ~LineInModel(fileContent, sortedEdits[k].endLine)
                  \/ OperationsOverlap(fileContent, sortedEdits)
            IN IF throws
               THEN UNCHANGED <<fileContent, pendingEdits>>
               ELSE /\ fileContent' = ExecuteAll(fileContent, sortedEdits)
                    /\ pendingEdits' = <<>>
    /\ UNCHANGED <<selectedFile, editorRef, stagedFor, applyVars, changeVars, decodeVars, overlapVars,
                 parseVars, depVars, diffVars, historyVars>>

\* a variant of handleRejectAllEdits: rejecting everything keeps the first entry
HandleRejectAllEditsKeepsOne ==
    /\ pendingEdits' = IF pendingEdits = <<>> THEN <<>> ELSE <<pendingEdits[1]>>
    /\ last' = [op |-> "rejectAll", id |-> <<"none">>, n |-> Len(pendingEdits)]
    /\ UNCHANGED <<selectedFile, fileContent, editorRef, stagedFor, applyVars, changeVars, decodeVars, overlapVars,
                 parseVars, depVars, diffVars, historyVars>>

\* handleRejectAllEdits()
HandleRejectAllEdits ==
    /\ pendingEdits' = <<>>
    /\ last' = [op |-> "rejectAll", id |-> <<"none">>, n |-> Len(pendingEdits)]
    /\ UNCHANGED <<selectedFile, fileContent, editorRef, stagedFor, applyVars, changeVars, decodeVars, overlapVars,
                 parseVars, depVars, diffVars, historyVars>>

ApplyIdle ==
    /\ aContent = <<>>
    /\ aEdits = <<>>
    /\ aFn = "none"
    /\ aInput = <<>>
    /\ aOut = <<>>
    /\ aSuccess = 0
    /\ aFailed = 0
    /\ aLog = <<>>

Init == PageIdle /\ ApplyIdle /\ ChangeIdle /\ DecodeIdle /\ OverlapIdle /\ RestIdle

Next ==
    \/ \E path \in Files : HandleFileSelect(path)
    \/ HandleSendStructured
    \/ HandleSendRouteEdits
    \/ HandleSendUndecodable
    \/ \E editId \in ButtonIds : HandleAcceptEdit(editId)
    \/ \E editId \in ButtonIds : HandleRejectEdit(editId)
    \/ HandleAcceptAllEdits
    \/ HandleRejectAllEdits

Spec == Init /\ [][Next]_vars

\* ------------------------------------------------------------------------
\* Notions the claims about the registry are stated in
\* ------------------------------------------------------------------------
\* the replacement text an entry proposes, whichever field carries it
ProposedText(e) == IF e.newText # UndefText THEN e.newText ELSE e.newCode

HasId(reg, editId) == \E k \in 1..Len(reg) : reg[k].id = editId

RemoveAt(seq, k) == SubSeq(seq, 1, k - 1) \o SubSeq(seq, k + 1, Len(seq))

\* the registry's entries as edits the Applier takes
AsTextEdits(reg) ==
    [k \in 1..Len(reg) |->
        [startLine |-> reg[k].startLine, endLine |-> reg[k].endLine,
         startColumn |-> 0, endColumn |-> 0,
         oldText |-> <<>>, newText |-> ProposedText(reg[k])]]

\* ------------------------------------------------------------------------
\* C5: after acceptAll() on a registry holding at least one proposed edit
\* the buffer is the result of running the Applier over every proposed edit
\* and the registry is empty.
\* ------------------------------------------------------------------------
C5_AcceptAllAppliesAndClears ==
    [][ (last'.op = "acceptAll" /\ Len(pendingEdits) > 0) =>
            /\ pendingEdits' = <<>>
            /\ fileContent' = applyEdits(fileContent, AsTextEdits(pendingEdits)).value
      ]_vars

\* ------------------------------------------------------------------------
\* C6: acceptOne(id) on a proposed edit applies it: afterwards the buffer
\* holds the edit's new text in place of its declared range.
\* ------------------------------------------------------------------------
C6_AcceptOneApplies ==
    [][ (last'.op = "acceptOne" /\ HasId(pendingEdits, last'.id)) =>
            LET k == CHOOSE k \in 1..Len(pendingEdits) : pendingEdits[k].id = last'.id
            IN fileContent' = ReplaceLines(fileContent, pendingEdits[k].startLine,
                                           pendingEdits[k].endLine,
                                           ProposedText(pendingEdits[k]))
      ]_vars

\* ------------------------------------------------------------------------
\* C7: acceptOne(id) and rejectOne(id) remove exactly the one entry carrying
\* that id, every other entry stays as it was and in the same order, and an
\* id that is not in the registry leaves the registry unchanged.
\* ------------------------------------------------------------------------
C7_RemovesExactlyOne ==
    [][ (last'.op \in {"acceptOne", "rejectOne"}) =>
            IF HasId(pendingEdits, last'.id)
            THEN \E k \in 1..Len(pendingEdits) :
                    /\ pendingEdits[k].id = last'.id
                    /\ pendingEdits' = RemoveAt(pendingEdits, k)
            ELSE pendingEdits' = pendingEdits
      ]_vars

\* ------------------------------------------------------------------------
\* C8: rejectOne(id) and rejectAll() never modify the text buffer, and after
\* rejectAll() the registry is empty.
\* ------------------------------------------------------------------------
C8_RejectKeepsBuffer ==
    [][ (last'.op \in {"rejectOne", "rejectAll"}) =>
            /\ fileContent' = fileContent
            /\ last'.op = "rejectAll" => pendingEdits' = <<>>
      ]_vars

\* rejectAll() ran on a registry of two entries staged for an open file
C8_Witness ==
    /\ last.op = "rejectAll"
    /\ last.n = 2
    /\ pendingEdits = <<>>
    /\ selectedFile # "none"
    /\ fileContent = FileText(selectedFile)

\* ------------------------------------------------------------------------
\* C9: switching the current file clears the registry: no pending edit that
\* was staged while file F was selected is in the registry once another file
\* is the selected file.
\* ------------------------------------------------------------------------
C9_SwitchClearsRegistry ==
    pendingEdits # <<>> => stagedFor = selectedFile

\* ------------------------------------------------------------------------
\* C10: in every registry state the ids of the pending edits are pairwise
\* distinct.
\* ------------------------------------------------------------------------
C10_IdsDistinct ==
    \A i, j \in 1..Len(pendingEdits) :
        i < j => pendingEdits[i].id # pendingEdits[j].id

\* ------------------------------------------------------------------------
\* A multi-file changeset: validated, then applied file by file
\* ------------------------------------------------------------------------
\* the edits of a FileEdit: ranges with start <= end, one replacement text
ChangeEdits ==
    { ed \in { [startLine |-> s, endLine |-> e, oldCode |-> <<>>, newCode |-> <<"X">>] :
                 s \in 1..MaxLine, e \in 1..MaxLine } :
        ed.startLine <= ed.endLine }

\* file A with any batch, then file B with no edit, one edit, or two edits
\* that share line 1
ChangeSets ==
    { << [filePath |-> "A", originalContent |-> FileText("A"), edits |-> ea],
         [filePath |-> "B", originalContent |-> FileText("B"), edits |-> eb] >> :
        ea \in UNION { [1..n -> ChangeEdits] : n \in 0..MaxEdits },
        eb \in { <<>>,
                 << [startLine |-> 1, endLine |-> 1,
                     oldCode |-> <<>>, newCode |-> <<"X">>] >>,
                 << [startLine |-> 1, endLine |-> 1,
                     oldCode |-> <<>>, newCode |-> <<"X">>],
                    [startLine |-> 1, endLine |-> 2,
                     oldCode |-> <<>>, newCode |-> <<"X">>] >> } }

ChangeInit ==
    /\ PageIdle
    /\ ApplyIdle
    /\ DecodeIdle
    /\ OverlapIdle
    /\ RestIdle
    /\ cChanges \in ChangeSets
    /\ cValidation = [called |-> FALSE, valid |-> TRUE, errors |-> <<>>]
    /\ cModified = [f \in 1..Len(cChanges) |-> cChanges[f].originalContent]

\* MultiFileManager.validateChanges(changes)
ValidateChanges ==
    /\ ~cValidation.called
    /\ cValidation' = [called |-> TRUE,
                       valid |-> validateChanges(cChanges).valid,
                       errors |-> validateChanges(cChanges).errors]
    /\ UNCHANGED <<cChanges, cModified, applyVars, pageVars, decodeVars, overlapVars,
                 parseVars, depVars, diffVars, historyVars>>

\* MultiFileManager.applyEdits(file.originalContent, file.edits) for one file
\* of the validated changeset; the function takes no validation result
ApplyFileEdits(f) ==
    /\ cValidation.called
    /\ cModified' = [cModified EXCEPT ![f] =
                        MFM_applyEdits(cChanges[f].originalContent, cChanges[f].edits)]
    /\ UNCHANGED <<cChanges, cValidation, applyVars, pageVars, decodeVars, overlapVars,
                 parseVars, depVars, diffVars, historyVars>>

ChangeNext ==
    \/ ValidateChanges
    \/ \E f \in 1..Len(cChanges) : ApplyFileEdits(f)

SpecChangeSet == ChangeInit /\ [][ChangeNext]_vars

\* ------------------------------------------------------------------------
\* C1: if validate reports a conflict in at least one file of a changeset,
\* no file of the changeset has its edits applied: every file's content
\* still equals its originalContent.
\* ------------------------------------------------------------------------
C1_ConflictBlocksEveryFile ==
    (cValidation.called /\ ~cValidation.valid) =>
        \A f \in 1..Len(cChanges) : cModified[f] = cChanges[f].originalContent

\* ------------------------------------------------------------------------
\* Notions the claims about the validator are stated in
\* ------------------------------------------------------------------------
\* two edits with start <= end share at least one line
SharesLine(e1, e2) == e1.startLine <= e2.endLine /\ e2.startLine <= e1.endLine

\* the pairs i < j of edits of file f that share a line
OverlappingPairs(files) ==
    { t \in { <<f, i, j>> : f \in 1..Len(files), i \in 1..MaxEdits + 1,
                            j \in 1..MaxEdits + 1 } :
        /\ t[2] < t[3]
        /\ t[3] <= Len(files[t[1]].edits)
        /\ SharesLine(files[t[1]].edits[t[2]], files[t[1]].edits[t[3]]) }

\* the error that names the file and both ranges of a pair
ErrorOf(files, t) ==
    [filePath |-> files[t[1]].filePath,
     range1 |-> RangeOf(files[t[1]].edits[t[2]]),
     range2 |-> RangeOf(files[t[1]].edits[t[3]])]

\* ------------------------------------------------------------------------
\* C11: validate returns valid = false exactly when some file's edit list
\* has a pair of edits with overlapping line ranges, with exactly one error
\* per overlapping pair, each naming the file and both ranges; with no such
\* pair it returns valid = true and an empty error list.
\* ------------------------------------------------------------------------
C11_OneErrorPerOverlappingPair ==
    cValidation.called =>
        LET pairs == OverlappingPairs(cChanges)
            expected == { ErrorOf(cChanges, t) : t \in pairs }
            reported == { cValidation.errors[k] : k \in 1..Len(cValidation.errors) }
        IN /\ cValidation.valid = (pairs = {})
           /\ Len(cValidation.errors) = Cardinality(pairs)
           /\ reported = expected
           /\ \A x \in expected :
                 Count(cValidation.errors, x)
                    = Cardinality({ t \in pairs : ErrorOf(cChanges, t) = x })
           /\ cValidation.valid => cValidation.errors = <<>>

\* validate reported two errors, one for a pair of file A and one for the
\* pair of file B
C11_Witness ==
    /\ cValidation.called
    /\ ~cValidation.valid
    /\ Len(cValidation.errors) = 2
    /\ cValidation.errors[1].filePath = "A"
    /\ cValidation.errors[1].range1 # cValidation.errors[1].range2
    /\ cValidation.errors[2].filePath = "B"

\* ------------------------------------------------------------------------
\* C12: when a structured response block is not well-formed, or its edits
\* key is absent or not a list, or one of its items cannot be converted,
\* decoding fails as a whole and no edit of the block, not even a
\* well-formed item before the bad one, is staged: the registry is as it was.
\* ------------------------------------------------------------------------
C12_FailedDecodeStagesNothing ==
    [][ last'.op = "sendUndecodable" =>
            /\ pendingEdits' = pendingEdits
            /\ stagedFor' = stagedFor
      ]_vars

\* an undecodable response arrived while the registry was empty, and the
\* registry is still empty
C12_Witness ==
    /\ last.op = "sendUndecodable"
    /\ last.n = 0
    /\ pendingEdits = <<>>
    /\ selectedFile # "none"

\* ------------------------------------------------------------------------
\* The overlap test on its own: two ranges, tested in both orders
\* ------------------------------------------------------------------------
Ranges == { r \in [start : 1..MaxRange, end : 1..MaxRange] : r.start <= r.end }

OverlapInit ==
    /\ PageIdle
    /\ ApplyIdle
    /\ ChangeIdle
    /\ DecodeIdle
    /\ RestIdle
    /\ oRange1 \in Ranges
    /\ oRange2 \in Ranges
    /\ oVerdict = <<"none", "none">>

BoolText(b) == IF b THEN "true" ELSE "false"

\* this.rangesOverlap(range1, range2), as validateChanges calls it
CallRangesOverlap ==
    /\ oVerdict[1] = "none"
    /\ oVerdict' = [oVerdict EXCEPT ![1] = BoolText(rangesOverlap(oRange1, oRange2))]
    /\ UNCHANGED <<oRange1, oRange2, applyVars, pageVars, changeVars, decodeVars,
                 parseVars, depVars, diffVars, historyVars>>

\* the same call with the two ranges exchanged
CallRangesOverlapExchanged ==
    /\ oVerdict[2] = "none"
    /\ oVerdict' = [oVerdict EXCEPT ![2] = BoolText(rangesOverlap(oRange2, oRange1))]
    /\ UNCHANGED <<oRange1, oRange2, applyVars, pageVars, changeVars, decodeVars,
                 parseVars, depVars, diffVars, historyVars>>

OverlapNext == CallRangesOverlap \/ CallRangesOverlapExchanged

SpecOverlap == OverlapInit /\ [][OverlapNext]_vars

\* one range's start lies within the other's inclusive span
StartWithin(r1, r2) ==
    \/ (r2.start <= r1.start /\ r1.start <= r2.end)
    \/ (r1.start <= r2.start /\ r2.start <= r1.end)

\* the two ranges have a line in common
ShareALine(r1, r2) ==
    \E l \in 1..MaxRange :
        r1.start <= l /\ l <= r1.end /\ r2.start <= l /\ l <= r2.end

\* ------------------------------------------------------------------------
\* C20: for two ranges with start <= end the overlap test is true exactly
\* when one range's start lies within the other's inclusive span, which is
\* when the two share a line; [1,5] and [3,8] conflict, [1,5] and [6,10] do
\* not, and the verdict is the same whichever range is given first.
\* ------------------------------------------------------------------------
C20_OverlapIsSharedLine ==
    /\ oVerdict[1] # "none" =>
          /\ oVerdict[1] = BoolText(StartWithin(oRange1, oRange2))
          /\ oVerdict[1] = BoolText(ShareALine(oRange1, oRange2))
    /\ oVerdict[2] # "none" =>
          oVerdict[2] = BoolText(StartWithin(oRange1, oRange2))
    /\ (oVerdict[1] # "none" /\ oVerdict[2] # "none") => oVerdict[1] = oVerdict[2]
    /\ (oVerdict[1] # "none" /\ oRange1 = [start |-> 1, end |-> 5]) =>
          /\ oRange2 = [start |-> 3, end |-> 8] => oVerdict[1] = "true"
          /\ oRange2 = [start |-> 6, end |-> 10] => oVerdict[1] = "false"

\* a range that lies strictly inside the other was tested in both orders
\* and found to overlap
C20_Witness ==
    /\ oRange1.start < oRange2.start
    /\ oRange2.end < oRange1.end
    /\ oVerdict = <<"true", "true">>

\* ------------------------------------------------------------------------
\* utils/storage.ts parseSearchReplace (and the same function of
\* app/api/gemini/route.ts): the regular expression
\*   /<<<<<<< SEARCH\n([\s\S]*?)\n=======\n([\s\S]*?)\n>>>>>>> REPLACE/g
\* run over the response text, character by character
\* ------------------------------------------------------------------------
SearchOpen == <<"<", "<", "<", "<", "<", "<", "<", SP, "S", "E", "A", "R", "C", "H", NL>>

Divider == <<NL, "=", "=", "=", "=", "=", "=", "=", NL>>

ReplaceClose ==
    <<NL, ">", ">", ">", ">", ">", ">", ">", SP, "R", "E", "P", "L", "A", "C", "E">>

\* position of the first occurrence of pat in text at or after from, 0 if none
IndexOf(text, pat, from) ==
    LET hits == { k \in from..(Len(text) - Len(pat) + 1) :
                    SubSeq(text, k, k + Len(pat) - 1) = pat }
    IN IF hits = {} THEN 0 ELSE CHOOSE k \in hits : \A j \in hits : k <= j

\* pattern.exec(text) with lastIndex = from - 1: both captures are lazy, so
\* each ends at the first occurrence of the literal that follows it
ExecBlock(text, from) ==
    LET p == IndexOf(text, SearchOpen, from)
        q == IF p = 0 THEN 0 ELSE IndexOf(text, Divider, p + Len(SearchOpen))
        r == IF q = 0 THEN 0 ELSE IndexOf(text, ReplaceClose, q + Len(Divider))
    IN IF r = 0 THEN [found |-> FALSE, search |-> <<>>, replace |-> <<>>, next |-> 0]
       ELSE [found |-> TRUE,
             search |-> SubSeq(text, p + Len(SearchOpen), q - 1),
             replace |-> SubSeq(text, q + Len(Divider), r - 1),
             next |-> r + Len(ReplaceClose)]

\* whether the window of the content's lines that starts at 0-indexed line i
\* matches the search lines, each line compared after trim()
WindowMatches(lines, searchLines, i) ==
    \A j \in 0..(Len(searchLines) - 1) :
        /\ i + j < Len(lines)
        /\ Trim(lines[i + j + 1]) = Trim(searchLines[j + 1])

\* the for loop over i with its break: the 1-indexed line of the window found,
\* -1 when the loop runs to the end
RECURSIVE FindWindowFrom(_, _, _)
FindWindowFrom(lines, searchLines, i) ==
    IF i >= Len(lines) THEN -1
    ELSE IF WindowMatches(lines, searchLines, i) THEN i + 1
    ELSE FindWindowFrom(lines, searchLines, i + 1)

\* a variant of the scan without the break: the last matching window stays
FindWindowLast(lines, searchLines) ==
    LET hits == { i \in 0..(Len(lines) - 1) : WindowMatches(lines, searchLines, i) }
    IN IF hits = {} THEN -1 ELSE (CHOOSE i \in hits : \A k \in hits : k <= i) + 1

\* the scan for the search lines
FindWindow(lines, searchLines) == FindWindowFrom(lines, searchLines, 0)

\* the edits pushed for one match of the pattern
BlockEdits(m, lines) ==
    LET searchText == Trim(m.search)
        replaceText == Trim(m.replace)
        searchLines == Split(searchText)
        startLine == FindWindow(lines, searchLines)
    IN IF startLine > 0
       THEN << [startLine |-> startLine,
                endLine |-> startLine + Len(searchLines) - 1,
                startColumn |-> 0, endColumn |-> 0,
                oldText |-> searchText,
                newText |-> replaceText] >>
       ELSE <<>>

\* a variant of the while loop: a block that is not found ends the loop
RECURSIVE parseSearchReplaceStops(_, _, _)
parseSearchReplaceStops(text, lines, from) ==
    LET m == ExecBlock(text, from) IN
    IF ~m.found \/ BlockEdits(m, lines) = <<>> THEN <<>>
    ELSE BlockEdits(m, lines) \o parseSearchReplaceStops(text, lines, m.next)

\* the while loop over the matches, from position `from` of the text
RECURSIVE parseSearchReplaceFrom(_, _, _)
parseSearchReplaceFrom(text, lines, from) ==
    LET m == ExecBlock(text, from) IN
    IF ~m.found THEN <<>>
    ELSE BlockEdits(m, lines) \o parseSearchReplaceFrom(text, lines, m.next)

parseSearchReplace(text, content) == parseSearchReplaceFrom(text, Split(content), 1)

\* route.ts parseSearchReplaceBlocks: the same statements as parseSearchReplace
parseSearchReplaceBlocks(text, originalCode) ==
    parseSearchReplaceFrom(text, Split(originalCode), 1)

\* ------------------------------------------------------------------------
\* utils/storage.ts parseUnifiedDiff: the regular expression
\*   /@@ -(\d+)(?:,(\d+))? \+(\d+)(?:,(\d+))? @@/g
\* used by diffText.split, character by character
\* ------------------------------------------------------------------------
DigitSeq == <<"0", "1", "2", "3", "4", "5", "6", "7", "8", "9">>

IsDigit(c) == \E d \in 1..Len(DigitSeq) : DigitSeq[d] = c

DigitValue(c) == (CHOOSE d \in 1..Len(DigitSeq) : DigitSeq[d] = c) - 1

\* parseInt of a string of digits
RECURSIVE parseInt(_)
parseInt(digits) ==
    IF digits = <<>> THEN 0
    ELSE parseInt(SubSeq(digits, 1, Len(digits) - 1)) * 10
            + DigitValue(digits[Len(digits)])

\* \d+ at position k: the number of digits it takes (0 when it does not match)
RECURSIVE DigitsLen(_, _)
DigitsLen(text, k) ==
    IF k <= Len(text) /\ IsDigit(text[k]) THEN 1 + DigitsLen(text, k + 1) ELSE 0

\* whether the literal lit stands at position k of text
LiteralAt(text, k, lit) ==
    k + Len(lit) - 1 <= Len(text) /\ SubSeq(text, k, k + Len(lit) - 1) = lit

\* (\d+)(?:,(\d+))? at position k: the first number, the second one when it
\* is there (count = <<>> stands for an undefined capture), and where it ends
NumberPairAt(text, k) ==
    LET n1 == DigitsLen(text, k)
        k2 == k + n1
        n2 == IF LiteralAt(text, k2, <<",">>) THEN DigitsLen(text, k2 + 1) ELSE 0
    IN [ok |-> n1 > 0,
        first |-> SubSeq(text, k, k2 - 1),
        count |-> IF n2 > 0 THEN SubSeq(text, k2 + 1, k2 + n2) ELSE <<>>,
        end |-> IF n2 > 0 THEN k2 + 1 + n2 ELSE k2]

\* the whole pattern at position k
HeaderAt(text, k) ==
    IF ~LiteralAt(text, k, <<"@", "@", SP, "-">>)
    THEN [ok |-> FALSE, oldStart |-> <<>>, oldCount |-> <<>>, end |-> 0]
    ELSE LET old == NumberPairAt(text, k + 4)
             new == NumberPairAt(text, old.end + 2)
         IN IF /\ old.ok
               /\ LiteralAt(text, old.end, <<SP, "+">>)
               /\ new.ok
               /\ LiteralAt(text, new.end, <<SP, "@", "@">>)
            THEN [ok |-> TRUE, oldStart |-> old.first, oldCount |-> old.count,
                  end |-> new.end + 3]
            ELSE [ok |-> FALSE, oldStart |-> <<>>, oldCount |-> <<>>, end |-> 0]

\* position of the first match of the pattern at or after from, 0 if none
NextHeader(text, from) ==
    LET hits == { k \in from..Len(text) : HeaderAt(text, k).ok }
    IN IF hits = {} THEN 0 ELSE CHOOSE k \in hits : \A j \in hits : k <= j

\* the lines of a hunk body that start with sign, the sign removed
BodyLines(body, sign) ==
    LET sel == SelectSeq(Split(body), LAMBDA l : Len(l) > 0 /\ l[1] = sign)
    IN [i \in 1..Len(sel) |-> Tail(sel[i])]

\* the body of the for loop: the edits pushed for one header and the text
\* that follows it up to the next header
HunkEdits(h, diffContent) ==
    LET oldStart == parseInt(h.oldStart)
        oldCount == parseInt(IF h.oldCount = <<>> THEN <<"1">> ELSE h.oldCount)
        oldLines == BodyLines(diffContent, "-")
        newLines == BodyLines(diffContent, "+")
    IN IF Len(oldLines) > 0 \/ Len(newLines) > 0
       THEN << [startLine |-> oldStart,
                endLine |-> oldStart + oldCount - 1,
                startColumn |-> 0, endColumn |-> 0,
                oldText |-> Join(oldLines),
                newText |-> Join(newLines)] >>
       ELSE <<>>

\* the for loop over the chunks of the split, from the header at position k
RECURSIVE parseUnifiedDiffFrom(_, _)
parseUnifiedDiffFrom(diffText, k) ==
    IF k = 0 THEN <<>>
    ELSE LET h == HeaderAt(diffText, k)
             nxt == NextHeader(diffText, h.end)
             diffContent == SubSeq(diffText, h.end,
                                   IF nxt = 0 THEN Len(diffText) ELSE nxt - 1)
         IN HunkEdits(h, diffContent) \o parseUnifiedDiffFrom(diffText, nxt)

parseUnifiedDiff(diffText, content) ==
    parseUnifiedDiffFrom(diffText, NextHeader(diffText, 1))

\* ------------------------------------------------------------------------
\* One call of a decoder on a response built from known parts
\* ------------------------------------------------------------------------
\* the original contents: a repeated line and an indented line; an empty line
DecodeBuffers ==
    { <<"a", NL, SP, "b", NL, "a">>,      \* "a\n b\na"
      <<"p", NL, NL, "q">> }              \* "p\n\nq"

\* the replacement texts of the blocks: one line; two lines, the first indented
Replacements == { <<"X">>, <<SP, "X", NL, "Y">> }

\* the blocks of a response against content: every span of whole lines of the
\* content as search text (from..to are the lines it occupies), and one
\* search text that is nowhere in the content (from = 0)
BlocksFor(content) ==
    { [search |-> Join(SubSeq(Split(content), sp[1], sp[2])), replace |-> r,
       from |-> sp[1], to |-> sp[2]] :
        sp \in { x \in (1..Len(Split(content))) \X (1..Len(Split(content))) :
                   x[1] <= x[2] },
        r \in Replacements }
    \cup { [search |-> <<"z">>, replace |-> r, from |-> 0, to |-> 0] :
             r \in Replacements }

\* one block in the form the pattern of parseSearchReplace matches
EncodeBlock(b) == SearchOpen \o b.search \o Divider \o b.replace \o ReplaceClose

EncodeBlocks(blocks) == Join([i \in 1..Len(blocks) |-> EncodeBlock(blocks[i])])

\* the hunks of a unified diff: oldCount = -1 stands for an omitted count;
\* the bodies: a removed and an added line; a context line, a removed and an
\* added line; a context line alone
Hunks ==
    { [oldStart |-> s, oldCount |-> c, body |-> b] :
        s \in 1..2, c \in {-1, 0, 2},
        b \in { << <<"-", "a">>, <<"+", "X">> >>,
                << <<SP, "a">>, <<"-", SP, "b">>, <<"+", "X">> >>,
                << <<SP, "a">> >> } }

RECURSIVE Digits(_)
\* the decimal digits of a natural number
Digits(n) ==
    IF n < 10 THEN <<DigitSeq[n + 1]>>
    ELSE Digits(n \div 10) \o <<DigitSeq[(n % 10) + 1]>>

\* a start and an optional count as they stand in a hunk header
NumberPair(start, count) ==
    Digits(start) \o (IF count < 0 THEN <<>> ELSE <<",">> \o Digits(count))

\* one hunk in the form the pattern of parseUnifiedDiff matches
EncodeHunk(h) ==
    <<"@", "@", SP, "-">> \o NumberPair(h.oldStart, h.oldCount)
        \o <<SP, "+">> \o NumberPair(h.oldStart, h.oldCount)
        \o <<SP, "@", "@", NL>> \o Join(h.body)

EncodeHunks(hunks) == Join([i \in 1..Len(hunks) |-> EncodeHunk(hunks[i])])

\* items of a structured response (EditResponse), oldLines from 0
DecodeItems ==
    { [fileName |-> "A", oldStart |-> s, oldLines |-> n,
       oldCode |-> c[1], newCode |-> c[2]] :
        s \in 1..2, n \in 0..2,
        c \in { << <<"a">>, <<"X">> >>, << <<"a", NL, "b">>, <<"X", NL, "Y">> >> } }

SeqsUpTo(S, n) == UNION { [1..k -> S] : k \in 1..n }

\* what a response decoded against content may be built from
DecodeInputs(content) ==
    { [kind |-> "searchReplace", parts |-> b] :
        b \in SeqsUpTo(BlocksFor(content), MaxBlocks) }
    \cup (IF content # <<"p", NL, NL, "q">>
          THEN { [kind |-> "unifiedDiff", parts |-> h] : h \in SeqsUpTo(Hunks, MaxBlocks) }
          ELSE { [kind |-> "structured", parts |-> i] :
                   i \in SeqsUpTo(DecodeItems, MaxBlocks) })

ResponseOf(in) ==
    IF in.kind = "searchReplace" THEN EncodeBlocks(in.parts)
    ELSE IF in.kind = "unifiedDiff" THEN EncodeHunks(in.parts)
    ELSE in.parts

DecodeInit ==
    /\ PageIdle
    /\ ApplyIdle
    /\ ChangeIdle
    /\ OverlapIdle
    /\ RestIdle
    /\ dFn = "none"
    /\ dContent \in DecodeBuffers
    /\ dIn \in DecodeInputs(dContent)
    /\ dText = ResponseOf(dIn)
    /\ dEdits = <<>>

\* parseSearchReplace(text, content)
CallParseSearchReplace ==
    /\ dFn = "none"
    /\ dIn.kind = "searchReplace"
    /\ dEdits' = parseSearchReplace(dText, dContent)
    /\ dFn' = "parseSearchReplace"
    /\ UNCHANGED <<dIn, dText, dContent, applyVars, pageVars, changeVars, overlapVars,
                 parseVars, depVars, diffVars, historyVars>>

\* parseSearchReplaceBlocks(text, code), as the route calls it
CallParseSearchReplaceBlocks ==
    /\ dFn = "none"
    /\ dIn.kind = "searchReplace"
    /\ dEdits' = parseSearchReplaceBlocks(dText, dContent)
    /\ dFn' = "parseSearchReplaceBlocks"
    /\ UNCHANGED <<dIn, dText, dContent, applyVars, pageVars, changeVars, overlapVars,
                 parseVars, depVars, diffVars, historyVars>>

\* parseUnifiedDiff(diffText, content)
CallParseUnifiedDiff ==
    /\ dFn = "none"
    /\ dIn.kind = "unifiedDiff"
    /\ dEdits' = parseUnifiedDiff(dText, dContent)
    /\ dFn' = "parseUnifiedDiff"
    /\ UNCHANGED <<dIn, dText, dContent, applyVars, pageVars, changeVars, overlapVars,
                 parseVars, depVars, diffVars, historyVars>>

\* AIPromptBuilder.diffToPendingEdits(AIPromptBuilder.parseAIResponse(text)),
\* as handleSend calls them
CallDecodeStructured ==
    /\ dFn = "none"
    /\ dIn.kind = "structured"
    /\ \E stamps \in Stamps(Len(dText)) :
         dEdits' = diffToPendingEdits(parseAIResponse(dText), stamps)
    /\ dFn' = "diffToPendingEdits"
    /\ UNCHANGED <<dIn, dText, dContent, applyVars, pageVars, changeVars, overlapVars,
                 parseVars, depVars, diffVars, historyVars>>

\* storage.applyEdits on an editor holding the original content, with the
\* edits parseUnifiedDiff returned
CallApplyDecoded ==
    /\ dFn = "parseUnifiedDiff"
    /\ aFn = "none"
    /\ LET res == applyEdits(dContent, dEdits) IN
         /\ aOut' = res.value
         /\ aSuccess' = res.success
         /\ aFailed' = res.failed
         /\ aLog' = res.log
    /\ aContent' = dContent
    /\ aEdits' = dEdits
    /\ aInput' = dEdits
    /\ aFn' = "applyEdits"
    /\ UNCHANGED <<decodeVars, pageVars, changeVars, overlapVars,
                 parseVars, depVars, diffVars, historyVars>>

DecodeNext ==
    \/ CallParseSearchReplace
    \/ CallParseSearchReplaceBlocks
    \/ CallParseUnifiedDiff
    \/ CallDecodeStructured
    \/ CallApplyDecoded

SpecDecode == DecodeInit /\ [][DecodeNext]_vars

\* ------------------------------------------------------------------------
\* Notions the claims about the decoders are stated in
\* ------------------------------------------------------------------------
SearchReplaceFns == {"parseSearchReplace", "parseSearchReplaceBlocks"}

\* the search text of a block matches no window of the content's lines,
\* lines compared after trimming their surrounding whitespace
NoWindowMatches(search, content) ==
    LET lines == Split(content)
        searchLines == Split(Trim(search))
    IN ~\E i \in 1..Len(lines) :
          \A j \in 1..Len(searchLines) :
              /\ i + j - 1 <= Len(lines)
              /\ Trim(lines[i + j - 1]) = Trim(searchLines[j])

\* ------------------------------------------------------------------------
\* C13: every edit decoded from a structured item {oldStart, oldLines,
\* oldCode, newCode} is a canonical edit with startLine = oldStart,
\* endLine = oldStart + oldLines - 1, oldText = the item's oldCode and
\* newText = the item's newCode (the field the accept path inserts).
\* ------------------------------------------------------------------------
C13_StructuredItemIsCanonical ==
    dFn = "diffToPendingEdits" =>
        /\ Len(dEdits) = Len(dIn.parts)
        /\ \A k \in 1..Len(dEdits) :
             /\ dEdits[k].startLine = dIn.parts[k].oldStart
             /\ dEdits[k].endLine = dIn.parts[k].oldStart + dIn.parts[k].oldLines - 1
             /\ dEdits[k].oldText = dIn.parts[k].oldCode
             /\ dEdits[k].newText = dIn.parts[k].newCode

\* ------------------------------------------------------------------------
\* C14: every edit produced by any of the three decoders has
\* startLine <= endLine, for every input, a structured item with
\* oldLines = 0 and a hunk header with oldCount = 0 included.
\* ------------------------------------------------------------------------
C14_StartNotAfterEnd ==
    \A k \in 1..Len(dEdits) : dEdits[k].startLine <= dEdits[k].endLine

\* ------------------------------------------------------------------------
\* C15: round trip of the search/replace encoding: a span of whole lines of
\* the buffer and a replacement R, encoded as one SEARCH/REPLACE block and
\* decoded against the buffer, give exactly one edit whose range is the
\* lines the span occupies and whose newText is R character for character.
\* ------------------------------------------------------------------------
C15_SearchReplaceRoundTrip ==
    (dFn \in SearchReplaceFns /\ Len(dIn.parts) = 1 /\ dIn.parts[1].from > 0) =>
        /\ Len(dEdits) = 1
        /\ dEdits[1].startLine = dIn.parts[1].from
        /\ dEdits[1].endLine = dIn.parts[1].to
        /\ dEdits[1].newText = dIn.parts[1].replace

\* ------------------------------------------------------------------------
\* C16: a block whose search text matches no window of the content yields
\* no edit, and the other blocks of the response are decoded exactly as if
\* it were absent: each block gives the edits it gives alone, in the order
\* of the blocks.
\* ------------------------------------------------------------------------
C16_UnmatchedBlockDropped ==
    dFn \in SearchReplaceFns =>
        LET alone == [k \in 1..Len(dIn.parts) |->
                         parseSearchReplace(EncodeBlocks(<<dIn.parts[k]>>), dContent)]
            matched == SelectSeq(dIn.parts,
                                 LAMBDA b : ~NoWindowMatches(b.search, dContent))
        IN /\ \A k \in 1..Len(dIn.parts) :
                 NoWindowMatches(dIn.parts[k].search, dContent) => alone[k] = <<>>
           /\ dEdits = Flatten(alone)
           /\ dEdits = parseSearchReplace(EncodeBlocks(matched), dContent)

\* a response whose first block is not found and whose second block is was
\* decoded to the one edit of the second block
C16_Witness ==
    /\ dFn = "parseSearchReplace"
    /\ Len(dIn.parts) = 2
    /\ dIn.parts[1].from = 0
    /\ dIn.parts[2].from > 0
    /\ Len(dEdits) = 1
    /\ dEdits[1].newText = <<"X">>

\* ------------------------------------------------------------------------
\* C17: applying an empty edit list to any buffer returns a buffer identical
\* to the input, and reports zero succeeded and zero failed edits.
\* ------------------------------------------------------------------------
C17_EmptyListIsNoOp ==
    (aFn # "none" /\ aEdits = <<>>) =>
        /\ aOut = aContent
        /\ aSuccess = 0
        /\ aFailed = 0

\* MultiFileManager.applyEdits was given no edit and a buffer whose last
\* line is empty
C17_Witness ==
    /\ aFn = "MultiFileManager.applyEdits"
    /\ aEdits = <<>>
    /\ aInput = <<>>
    /\ aContent # <<>>
    /\ aContent[Len(aContent)] = NL
    /\ aOut = aContent

\* ------------------------------------------------------------------------
\* C18: staging a new batch while edits of an earlier batch are pending
\* leaves the registry holding exactly the edits of the new batch: nothing
\* is queued or merged, and every staged entry has applied = false and
\* rejected = false.
\* ------------------------------------------------------------------------
\* the batches handleSend may hand to onApplyEdits
StagedBatches ==
    { WithIds(diffToPendingEdits(parseAIResponse(items), stamps), stamps) :
        items \in NonEmptySeqs(StructuredItems), stamps \in Stamps(MaxEdits) }
    \cup { WithIds(edits, stamps) :
             edits \in NonEmptySeqs(RouteEdits), stamps \in Stamps(MaxEdits) }

OldTexts ==
    { <<"a">>, <<SP, "a">>, <<"a", SP>>,
      <<"a", NL, "b">>, <<"a", NL, SP, "b">>, <<"a", SP, NL, "b">>,
      <<"b">>, <<"b", NL, "c">>, <<"b", NL, SP, "c">>, <<"z">> }

VerifyEdits ==
    { [startLine |-> s, endLine |-> e, startColumn |-> 0, endColumn |-> 0,
       oldText |-> t, newText |-> <<"X">>] :
        s \in 1..MaxLine, e \in 1..MaxLine, t \in OldTexts }

VerifyInit ==
    /\ PageIdle
    /\ ChangeIdle
    /\ DecodeIdle
    /\ OverlapIdle
    /\ RestIdle
    /\ aContent \in Buffers
    /\ aEdits \in { <<ed>> : ed \in { x \in VerifyEdits : x.startLine <= x.endLine } }
    /\ aFn = "none"
    /\ aInput = <<>>
    /\ aOut = <<>>
    /\ aSuccess = 0
    /\ aFailed = 0
    /\ aLog = <<>>

SpecVerify == VerifyInit /\ [][ApplyNext]_vars

\* two texts have the same lines once each line is trimmed
SameLinesTrimmed(t1, t2) ==
    /\ Len(Split(t1)) = Len(Split(t2))
    /\ \A i \in 1..Len(Split(t1)) : Trim(Split(t1)[i]) = Trim(Split(t2)[i])

\* ------------------------------------------------------------------------
\* C19: old-text verification is whitespace-insensitive per line: an edit
\* whose oldText equals the text of its declared range line by line after
\* trimming each line passes verification and is applied.
\* ------------------------------------------------------------------------
C19_PerLineTrimmedCheck ==
    (aFn = "applyEdits" /\ Len(aLog) = 1) =>
        LET en == aLog[1] IN
        (/\ en.edit.endLine <= Len(Split(en.before))
         /\ SameLinesTrimmed(en.edit.oldText,
                              LinesText(en.before, en.edit.startLine, en.edit.endLine)))
        => /\ en.ok
           /\ aOut = ReplaceLines(en.before, en.edit.startLine, en.edit.endLine,
                                   en.edit.newText)

\* the search lines of a block: the lines of its search text, the text taken
\* without the whitespace around it
SearchLinesOf(b) == Split(Trim(b.search))

\* the 1-indexed lines L of the content at which every search line equals
\* the content's line after trimming surrounding whitespace
MatchPositions(searchLines, content) ==
    LET lines == Split(content)
    IN { L \in 1..Len(lines) :
           \A k \in 0..(Len(searchLines) - 1) :
               /\ L + k <= Len(lines)
               /\ Trim(lines[L + k]) = Trim(searchLines[k + 1]) }

\* ------------------------------------------------------------------------
\* C21: for each search/replace block with n search lines that has at least
\* one match, the decoded edit has startLine = the lowest line L of the
\* original content at which every search line equals the content's line
\* after trimming, and endLine = L + n - 1, which is at most the content's
\* line count; a later matching position is never chosen.
\* ------------------------------------------------------------------------
C21_FirstMatchWins ==
    dFn \in SearchReplaceFns =>
        LET found == SelectSeq(dIn.parts,
                               LAMBDA b : MatchPositions(SearchLinesOf(b), dContent) # {})
        IN /\ Len(dEdits) = Len(found)
           /\ \A i \in 1..Len(found) :
                 LET pos == MatchPositions(SearchLinesOf(found[i]), dContent)
                     n == Len(SearchLinesOf(found[i]))
                 IN /\ dEdits[i].startLine \in pos
                    /\ \A L \in pos : dEdits[i].startLine <= L
                    /\ dEdits[i].endLine = dEdits[i].startLine + n - 1
                    /\ dEdits[i].endLine <= Len(Split(dContent))

\* a block whose search line stands at two lines of the content was decoded
\* to an edit at the first of them
C21_Witness ==
    /\ dFn \in SearchReplaceFns
    /\ Len(dEdits) = 1
    /\ MatchPositions(SearchLinesOf(dIn.parts[1]), dContent) = {1, 3}
    /\ dEdits[1].startLine = 1

\* the lines of a hunk's body that carry sign, the sign removed, in body order
SignLines(h, sign) ==
    LET sel == SelectSeq(h.body, LAMBDA l : l[1] = sign)
    IN [i \in 1..Len(sel) |-> Tail(sel[i])]

\* the count a hunk header stands for: 1 when the header leaves it out
CountOf(h) == IF h.oldCount < 0 THEN 1 ELSE h.oldCount

\* ------------------------------------------------------------------------
\* C22: decoding unified-diff text gives exactly one edit per hunk header, in
\* header order, with startLine = oldStart, endLine = oldStart + oldCount - 1,
\* oldText = the hunk's '-' lines and newText = its '+' lines, each with the
\* prefix removed and in body order; also for a hunk whose body has only
\* context lines.
\* ------------------------------------------------------------------------
C22_OneEditPerHunk ==
    dFn = "parseUnifiedDiff" =>
        /\ Len(dEdits) = Len(dIn.parts)
        /\ \A k \in 1..Len(dEdits) :
             /\ dEdits[k].startLine = dIn.parts[k].oldStart
             /\ dEdits[k].endLine = dIn.parts[k].oldStart + CountOf(dIn.parts[k]) - 1
             /\ dEdits[k].oldText = Join(SignLines(dIn.parts[k], "-"))
             /\ dEdits[k].newText = Join(SignLines(dIn.parts[k], "+"))

\* the lines of a hunk's body that stand in the old text, and those that
\* stand in the new text, in body order, the prefix removed
OldSide(h) ==
    LET sel == SelectSeq(h.body, LAMBDA l : l[1] # "+")
    IN [i \in 1..Len(sel) |-> Tail(sel[i])]

NewSide(h) ==
    LET sel == SelectSeq(h.body, LAMBDA l : l[1] # "-")
    IN [i \in 1..Len(sel) |-> Tail(sel[i])]

\* the hunk is made against the content: its header counts the lines of its
\* old side, and they are the content's lines from oldStart on
MadeAgainst(h, content) ==
    /\ CountOf(h) = Len(OldSide(h))
    /\ h.oldStart + CountOf(h) - 1 <= Len(Split(content))
    /\ SubSeq(Split(content), h.oldStart, h.oldStart + CountOf(h) - 1) = OldSide(h)

\* the body mixes context lines with '-' and '+' lines
MixedBody(h) ==
    /\ \E i \in 1..Len(h.body) : h.body[i][1] = SP
    /\ SignLines(h, "-") # <<>>
    /\ SignLines(h, "+") # <<>>

\* the content with the hunk's old side replaced by its new side
Patched(content, h) ==
    LET lines == Split(content)
    IN Join(SubSeq(lines, 1, h.oldStart - 1) \o NewSide(h)
              \o SubSeq(lines, h.oldStart + CountOf(h), Len(lines)))

\* ------------------------------------------------------------------------
\* C23: for a hunk made against the buffer whose body mixes context lines
\* with '-' and '+' lines, decoding the hunk and applying the resulting edit
\* to the buffer passes old-text verification and leaves every context line
\* at its position: only the '-' lines are removed and only the '+' lines
\* are inserted.
\* ------------------------------------------------------------------------
C23_ContextLinesKept ==
    (/\ dFn = "parseUnifiedDiff"
     /\ aFn = "applyEdits"
     /\ Len(dIn.parts) = 1
     /\ MadeAgainst(dIn.parts[1], dContent)
     /\ MixedBody(dIn.parts[1]))
    => /\ aSuccess = 1
       /\ aFailed = 0
       /\ aOut = Patched(dContent, dIn.parts[1])

\* ------------------------------------------------------------------------
\* codeParser.ts CodeParser: the regular expressions of the parsers, run
\* over one line character by character
\* ------------------------------------------------------------------------
WordChars ==
    { "a", "b", "c", "d", "e", "f", "g", "h", "i", "j", "k", "l", "m",
      "n", "o", "p", "q", "r", "s", "t", "u", "v", "w", "x", "y", "z",
      "A", "B", "C", "D", "E", "F", "G", "H", "I", "J", "K", "L", "M",
      "N", "O", "P", "Q", "R", "S", "T", "U", "V", "W", "X", "Y", "Z",
      "0", "1", "2", "3", "4", "5", "6", "7", "8", "9", "_" }

\* \w
IsWord(c) == c \in WordChars

\* \s* at position k of line: the position after it
RECURSIVE SkipSpaces(_, _)
SkipSpaces(line, k) ==
    IF k <= Len(line) /\ IsSpace(line[k]) THEN SkipSpaces(line, k + 1) ELSE k

\* \w* at position k of line: the position after it
RECURSIVE SkipWord(_, _)
SkipWord(line, k) ==
    IF k <= Len(line) /\ IsWord(line[k]) THEN SkipWord(line, k + 1) ELSE k

\* [\w.]* at position k of line: the position after it
RECURSIVE SkipDotted(_, _)
SkipDotted(line, k) ==
    IF k <= Len(line) /\ (IsWord(line[k]) \/ line[k] = ".")
    THEN SkipDotted(line, k + 1) ELSE k

\* kw\s+ at position k: the position after it, 0 when it does not match
KeywordAt(line, k, kw) ==
    IF LiteralAt(line, k, kw) /\ SkipSpaces(line, k + Len(kw)) > k + Len(kw)
    THEN SkipSpaces(line, k + Len(kw)) ELSE 0

\* (kw1\s+)?(kw2\s+)?... at position k: the position after it
RECURSIVE OptionalsAt(_, _, _)
OptionalsAt(line, k, kws) ==
    IF kws = <<>> THEN k
    ELSE OptionalsAt(line,
                     IF KeywordAt(line, k, Head(kws)) > 0
                     THEN KeywordAt(line, k, Head(kws)) ELSE k,
                     Tail(kws))

NoMatch == [ok |-> FALSE, name |-> <<>>]

\* ^\s*(opt\s+)?...kw\s+(\w+) on line: whether it matches, and the last group
DeclarationRegex(line, opts, kw) ==
    LET k == KeywordAt(line, OptionalsAt(line, SkipSpaces(line, 1), opts), kw)
    IN IF k > 0 /\ SkipWord(line, k) > k
       THEN [ok |-> TRUE, name |-> SubSeq(line, k, SkipWord(line, k) - 1)]
       ELSE NoMatch

\* parseJavaScriptLike
functionRegex(line) == DeclarationRegex(line, <<<<"e", "x", "p", "o", "r", "t">>, <<"a", "s", "y", "n", "c">>>>, <<"f", "u", "n", "c", "t", "i", "o", "n">>)

classRegex(line) == DeclarationRegex(line, <<<<"e", "x", "p", "o", "r", "t">>, <<"a", "b", "s", "t", "r", "a", "c", "t">>>>, <<"c", "l", "a", "s", "s">>)

constRegex(line) == DeclarationRegex(line, <<<<"e", "x", "p", "o", "r", "t">>>>, <<"c", "o", "n", "s", "t">>)

interfaceRegex(line) == DeclarationRegex(line, <<<<"e", "x", "p", "o", "r", "t">>>>, <<"i", "n", "t", "e", "r", "f", "a", "c", "e">>)

typeRegex(line) == DeclarationRegex(line, <<<<"e", "x", "p", "o", "r", "t">>>>, <<"t", "y", "p", "e">>)

ExportKinds ==
    { <<"f", "u", "n", "c", "t", "i", "o", "n">>, <<"c", "l", "a", "s", "s">>, <<"c", "o", "n", "s", "t">>, <<"l", "e", "t">>, <<"v", "a", "r">>,
      <<"i", "n", "t", "e", "r", "f", "a", "c", "e">>, <<"t", "y", "p", "e">>, <<"e", "n", "u", "m">> }

\* /^\s*export\s+(default\s+)?(function|class|const|let|var|interface|type|enum)/
exportRegex(line) ==
    LET k == KeywordAt(line, SkipSpaces(line, 1), <<"e", "x", "p", "o", "r", "t">>)
    IN /\ k > 0
       /\ \E w \in ExportKinds :
            LiteralAt(line, OptionalsAt(line, k, <<<<"d", "e", "f", "a", "u", "l", "t">>>>), w)

\* position of the first character from k on that is in stop, Len + 1 if none
NextOf(line, k, stop) ==
    LET hits == { j \in k..Len(line) : line[j] \in stop }
    IN IF hits = {} THEN Len(line) + 1 ELSE CHOOSE j \in hits : \A i \in hits : j <= i

\* (?:{[^}]+}|\*\s+as\s+\w+|\w+) at position k: the position after it, 0 when
\* no alternative matches
ImportClauseAt(line, k) ==
    IF k > Len(line) THEN 0
    ELSE IF line[k] = "{"
    THEN LET c == NextOf(line, k + 1, {"}"})
         IN IF c <= Len(line) /\ c > k + 1 THEN c + 1 ELSE 0
    ELSE IF line[k] = "*"
    THEN LET a == KeywordAt(line, k, <<"*">>)
             w == IF a = 0 THEN 0 ELSE KeywordAt(line, a, <<"a", "s">>)
         IN IF w > 0 /\ SkipWord(line, w) > w THEN SkipWord(line, w) ELSE 0
    ELSE IF SkipWord(line, k) > k THEN SkipWord(line, k) ELSE 0

Quotes == {"'", "\""}

\* ['"]([^'"]+)['"] at position f, 0 when what precedes did not match
ImportPathAt(line, f) ==
    LET q == IF f = 0 THEN 0 ELSE NextOf(line, f + 1, Quotes)
    IN IF /\ f > 0
          /\ f <= Len(line)
          /\ line[f] \in Quotes
          /\ q <= Len(line)
          /\ q > f + 1
       THEN [ok |-> TRUE, name |-> SubSeq(line, f + 1, q - 1)]
       ELSE NoMatch

\* \s+from\s+['"]([^'"]+)['"] at position e, the end of the import clause
ImportFromAt(line, e) ==
    ImportPathAt(line, IF e = 0 \/ SkipSpaces(line, e) = e THEN 0
                       ELSE KeywordAt(line, SkipSpaces(line, e), <<"f", "r", "o", "m">>))

\* (?:{[^}]+}|\*\s+as\s+\w+|\w+) ... at position k, the end of import\s+
ImportAfterKeyword(line, k) ==
    ImportFromAt(line, IF k = 0 THEN 0 ELSE ImportClauseAt(line, k))

\* /^\s*import\s+(?:{[^}]+}|\*\s+as\s+\w+|\w+)\s+from\s+['"]([^'"]+)['"]/
importRegex(line) ==
    ImportAfterKeyword(line, KeywordAt(line, SkipSpaces(line, 1),
                                       <<"i", "m", "p", "o", "r", "t">>))

\* the number of times the character c stands in line: (line.match(/c/g) || []).length
CountChar(line, c) == Cardinality({ k \in 1..Len(line) : line[k] = c })

\* findBlockEnd: the for loop from index i on, with bracketCount and foundStart
RECURSIVE findBlockEndFrom(_, _, _, _)
findBlockEndFrom(lines, i, bracketCount, foundStart) ==
    IF i >= Len(lines) THEN Len(lines)
    ELSE LET openBrackets == CountChar(lines[i + 1], "{")
             closeBrackets == CountChar(lines[i + 1], "}")
             count == bracketCount + openBrackets - closeBrackets
             found == foundStart \/ openBrackets > 0
         IN IF found /\ count = 0 THEN i + 1
            ELSE findBlockEndFrom(lines, i + 1, count, found)

findBlockEnd(lines, startIndex) == findBlockEndFrom(lines, startIndex, 0, FALSE)

\* a symbol as the parsers push it; scope is UndefText when it is not set
Symbol(name, type, startLine, endLine, content, scope) ==
    [name |-> name, type |-> type, startLine |-> startLine, endLine |-> endLine,
     content |-> content, scope |-> scope]

\* Set.prototype.add on the dependencies, kept in insertion order
SetAdd(deps, d) ==
    IF \E k \in 1..Len(deps) : deps[k] = d THEN deps ELSE Append(deps, d)

\* the callback of lines.forEach in parseJavaScriptLike, for the line at index
JavaScriptLine(st, lines, index) ==
    LET line == lines[index + 1]
        bracketDepth == st.bracketDepth + CountChar(line, "{") - CountChar(line, "}")
        importMatch == importRegex(line)
        functionMatch == functionRegex(line)
        classMatch == classRegex(line)
        constMatch == constRegex(line)
        interfaceMatch == interfaceRegex(line)
        typeMatch == typeRegex(line)
        scopeAfterClass == IF classMatch.ok THEN classMatch.name ELSE st.currentScope
        pushed ==
            (IF functionMatch.ok
             THEN <<Symbol(functionMatch.name, "function", index + 1,
                           findBlockEnd(lines, index), line, st.currentScope)>>
             ELSE <<>>)
            \o (IF classMatch.ok
                THEN <<Symbol(classMatch.name, "class", index + 1,
                              findBlockEnd(lines, index), line, UndefText)>>
                ELSE <<>>)
            \o (IF constMatch.ok
                THEN <<Symbol(constMatch.name, "variable", index + 1, index + 1,
                              line, scopeAfterClass)>>
                ELSE <<>>)
            \o (IF interfaceMatch.ok
                THEN <<Symbol(interfaceMatch.name, "interface", index + 1,
                              findBlockEnd(lines, index), line, UndefText)>>
                ELSE <<>>)
            \o (IF typeMatch.ok
                THEN <<Symbol(typeMatch.name, "type", index + 1, index + 1,
                              line, UndefText)>>
                ELSE <<>>)
    IN [currentScope |-> IF bracketDepth = 0 THEN UndefText ELSE scopeAfterClass,
        bracketDepth |-> bracketDepth,
        indentLevel |-> st.indentLevel,
        symbols |-> st.symbols \o pushed,
        imports |-> IF importMatch.ok THEN Append(st.imports, importMatch.name)
                    ELSE st.imports,
        exports |-> IF exportRegex(line) THEN Append(st.exports, Trim(line))
                    ELSE st.exports,
        dependencies |-> IF importMatch.ok THEN SetAdd(st.dependencies, importMatch.name)
                         ELSE st.dependencies]

\* the locals of a parser before its loop
ParserStart ==
    [currentScope |-> UndefText, bracketDepth |-> 0, indentLevel |-> 0,
     symbols |-> <<>>, imports |-> <<>>, exports |-> <<>>, dependencies |-> <<>>]

\* lines.forEach of parseJavaScriptLike from index on
RECURSIVE JavaScriptForEach(_, _, _)
JavaScriptForEach(st, lines, index) ==
    IF index >= Len(lines) THEN st
    ELSE JavaScriptForEach(JavaScriptLine(st, lines, index), lines, index + 1)

parseJavaScriptLike(lines) == JavaScriptForEach(ParserStart, lines, 0)

\* String.prototype.split(sep) for a one-character separator
RECURSIVE SplitBy(_, _)
SplitBy(s, sep) ==
    LET k == NextOf(s, 1, {sep}) IN
    IF k > Len(s) THEN <<s>>
    ELSE <<SubSeq(s, 1, k - 1)>> \o SplitBy(SubSeq(s, k + 1, Len(s)), sep)

\* Array.prototype.join(sep)
RECURSIVE JoinBy(_, _)
JoinBy(ls, sep) ==
    IF Len(ls) = 0 THEN <<>>
    ELSE IF Len(ls) = 1 THEN ls[1]
    ELSE ls[1] \o <<sep>> \o JoinBy(Tail(ls), sep)

\* line.search(/\S/): the index of the first character that is not
\* whitespace, -1 when there is none
SearchNonSpace(line) ==
    IF SkipSpaces(line, 1) > Len(line) THEN -1 ELSE SkipSpaces(line, 1) - 1

\* findPythonBlockEnd: the for loop from index i on
RECURSIVE findPythonBlockEndFrom(_, _, _)
findPythonBlockEndFrom(lines, i, startIndent) ==
    IF i >= Len(lines) THEN Len(lines)
    ELSE IF Trim(lines[i + 1]) = <<>> THEN findPythonBlockEndFrom(lines, i + 1, startIndent)
    ELSE IF SearchNonSpace(lines[i + 1]) <= startIndent THEN i
    ELSE findPythonBlockEndFrom(lines, i + 1, startIndent)

\* a variant of the loop: it starts at the declaration line itself
findPythonBlockEndFromStart(lines, startIndex) ==
    findPythonBlockEndFrom(lines, startIndex, SearchNonSpace(lines[startIndex + 1]))

findPythonBlockEnd(lines, startIndex) ==
    findPythonBlockEndFrom(lines, startIndex + 1, SearchNonSpace(lines[startIndex + 1]))

\* [\w,\s*]* at position k of line: the position after it
RECURSIVE SkipNames(_, _)
SkipNames(line, k) ==
    IF k <= Len(line) /\ (IsWord(line[k]) \/ IsSpace(line[k]) \/ line[k] \in {",", "*"})
    THEN SkipNames(line, k + 1) ELSE k

\* import\s+([\w,\s*]+) at position k: the group; \s+ gives its last space
\* to the group when nothing else can start it
PythonImportNamesAt(line, k) ==
    LET a == k + Len(<<"i", "m", "p", "o", "r", "t">>)
        s == SkipSpaces(line, a)
    IN IF ~LiteralAt(line, k, <<"i", "m", "p", "o", "r", "t">>) \/ s = a THEN NoMatch
       ELSE IF SkipNames(line, s) > s
       THEN [ok |-> TRUE, name |-> SubSeq(line, s, SkipNames(line, s) - 1)]
       ELSE IF s - a >= 2 THEN [ok |-> TRUE, name |-> <<SP>>]
       ELSE NoMatch

\* /^\s*(from\s+([\w.]+)\s+)?import\s+([\w,\s*]+)/: groups 2 and 3
\* (fromModule is UndefText when the first group takes no part)
pythonImportRegex(line) ==
    LET k0 == SkipSpaces(line, 1)
        m == KeywordAt(line, k0, <<"f", "r", "o", "m">>)
        e == IF m = 0 THEN 0 ELSE SkipDotted(line, m)
        k1 == IF m = 0 \/ e = m \/ SkipSpaces(line, e) = e THEN 0
              ELSE SkipSpaces(line, e)
        withFrom == IF k1 = 0 THEN NoMatch ELSE PythonImportNamesAt(line, k1)
        plain == PythonImportNamesAt(line, k0)
    IN IF withFrom.ok
       THEN [ok |-> TRUE, fromModule |-> SubSeq(line, m, e - 1),
             importNames |-> withFrom.name]
       ELSE [ok |-> plain.ok, fromModule |-> UndefText, importNames |-> plain.name]

pythonFunctionRegex(line) == DeclarationRegex(line, <<>>, <<"d", "e", "f">>)

pythonClassRegex(line) == DeclarationRegex(line, <<>>, <<"c", "l", "a", "s", "s">>)

\* the callback of lines.forEach in parsePython, for the line at index
PythonLine(st, lines, index) ==
    LET line == lines[index + 1]
        currentIndent == SearchNonSpace(line)
        scopeHere == IF /\ currentIndent # -1
                        /\ currentIndent <= st.indentLevel
                     THEN UndefText ELSE st.currentScope
        importMatch == pythonImportRegex(line)
        functionMatch == pythonFunctionRegex(line)
        classMatch == pythonClassRegex(line)
        pushed ==
            (IF functionMatch.ok
             THEN <<Symbol(functionMatch.name, "function", index + 1,
                           findPythonBlockEnd(lines, index), line, scopeHere)>>
             ELSE <<>>)
            \o (IF classMatch.ok
                THEN <<Symbol(classMatch.name, "class", index + 1,
                              findPythonBlockEnd(lines, index), line, UndefText)>>
                ELSE <<>>)
    IN [currentScope |-> IF classMatch.ok THEN classMatch.name ELSE scopeHere,
        bracketDepth |-> st.bracketDepth,
        indentLevel |-> IF functionMatch.ok \/ classMatch.ok THEN currentIndent
                        ELSE st.indentLevel,
        symbols |-> st.symbols \o pushed,
        imports |-> IF ~importMatch.ok THEN st.imports
                    ELSE IF importMatch.fromModule # UndefText
                    THEN Append(st.imports,
                                importMatch.fromModule \o <<".">> \o importMatch.importNames)
                    ELSE Append(st.imports, importMatch.importNames),
        exports |-> st.exports,
        dependencies |-> IF ~importMatch.ok THEN st.dependencies
                         ELSE IF importMatch.fromModule # UndefText
                         THEN SetAdd(st.dependencies, importMatch.fromModule)
                         ELSE SetAdd(st.dependencies,
                                     Trim(SplitBy(importMatch.importNames, ",")[1]))]

\* lines.forEach of parsePython from index on
RECURSIVE PythonForEach(_, _, _)
PythonForEach(st, lines, index) ==
    IF index >= Len(lines) THEN st
    ELSE PythonForEach(PythonLine(st, lines, index), lines, index + 1)

parsePython(lines) == PythonForEach(ParserStart, lines, 0)

\* /^\s*import\s+([\w.]+)/
javaImportRegex(line) ==
    LET k == KeywordAt(line, SkipSpaces(line, 1), <<"i", "m", "p", "o", "r", "t">>)
    IN IF k > 0 /\ SkipDotted(line, k) > k
       THEN [ok |-> TRUE, name |-> SubSeq(line, k, SkipDotted(line, k) - 1)]
       ELSE NoMatch

javaClassRegex(line) == DeclarationRegex(line, <<<<"p", "u", "b", "l", "i", "c">>, <<"a", "b", "s", "t", "r", "a", "c", "t">>>>, <<"c", "l", "a", "s", "s">>)

Modifiers == { <<"p", "u", "b", "l", "i", "c">>, <<"p", "r", "i", "v", "a", "t", "e">>, <<"p", "r", "o", "t", "e", "c", "t", "e", "d">> }

\* /^\s*(public|private|protected)\s+.*\s+(\w+)\s*\(/: the word may start at
\* any position w that has whitespace before it, after the whitespace that
\* follows the modifier, and has '(' after it and optional whitespace; the
\* greedy .* takes the last such position
methodRegex(line) ==
    LET k0 == SkipSpaces(line, 1)
        after == { k0 + Len(m) : m \in { x \in Modifiers : LiteralAt(line, k0, x) } }
        starts == { w \in 1..Len(line) :
                      /\ \E a \in after : a <= Len(line) /\ IsSpace(line[a]) /\ w - 1 > a
                      /\ IsSpace(line[w - 1])
                      /\ SkipWord(line, w) > w
                      /\ LiteralAt(line, SkipSpaces(line, SkipWord(line, w)), <<"(">>) }
    IN IF starts = {} THEN NoMatch
       ELSE LET w == CHOOSE x \in starts : \A y \in starts : y <= x
            IN [ok |-> TRUE, name |-> SubSeq(line, w, SkipWord(line, w) - 1)]

\* the callback of lines.forEach in parseJava, for the line at index
JavaLine(st, lines, index) ==
    LET line == lines[index + 1]
        importMatch == javaImportRegex(line)
        classMatch == javaClassRegex(line)
        methodMatch == methodRegex(line)
        pushed ==
            (IF classMatch.ok
             THEN <<Symbol(classMatch.name, "class", index + 1,
                           findBlockEnd(lines, index), line, UndefText)>>
             ELSE <<>>)
            \o (IF methodMatch.ok
                THEN <<Symbol(methodMatch.name, "function", index + 1,
                              findBlockEnd(lines, index), line, UndefText)>>
                ELSE <<>>)
    IN [currentScope |-> st.currentScope,
        bracketDepth |-> st.bracketDepth,
        indentLevel |-> st.indentLevel,
        symbols |-> st.symbols \o pushed,
        imports |-> IF importMatch.ok THEN Append(st.imports, importMatch.name)
                    ELSE st.imports,
        exports |-> st.exports,
        dependencies |-> IF importMatch.ok
                         THEN SetAdd(st.dependencies, SplitBy(importMatch.name, ".")[1])
                         ELSE st.dependencies]

\* lines.forEach of parseJava from index on
RECURSIVE JavaForEach(_, _, _)
JavaForEach(st, lines, index) ==
    IF index >= Len(lines) THEN st
    ELSE JavaForEach(JavaLine(st, lines, index), lines, index + 1)

parseJava(lines) == JavaForEach(ParserStart, lines, 0)

\* parseGeneric: functionPatterns, each /kw\s+(\w+)/ anywhere in the line
functionPatterns == << <<"f", "u", "n", "c", "t", "i", "o", "n">>, <<"d", "e", "f">>, <<"f", "n">> >>

\* pattern.exec(line) for /kw\s+(\w+)/: the leftmost match
PatternExec(line, kw) ==
    LET hits == { p \in 1..Len(line) :
                    /\ KeywordAt(line, p, kw) > 0
                    /\ SkipWord(line, KeywordAt(line, p, kw)) > KeywordAt(line, p, kw) }
    IN IF hits = {} THEN NoMatch
       ELSE LET p == CHOOSE x \in hits : \A y \in hits : x <= y
                k == KeywordAt(line, p, kw)
            IN [ok |-> TRUE, name |-> SubSeq(line, k, SkipWord(line, k) - 1)]

\* the callback of lines.forEach in parseGeneric: the first pattern that
\* matches pushes one symbol
GenericLine(st, lines, index) ==
    LET line == lines[index + 1]
        matching == { i \in 1..Len(functionPatterns) :
                        PatternExec(line, functionPatterns[i]).ok }
    IN IF matching = {} THEN st
       ELSE LET i == CHOOSE x \in matching : \A y \in matching : x <= y
            IN [st EXCEPT !.symbols =
                   Append(@, Symbol(PatternExec(line, functionPatterns[i]).name,
                                    "function", index + 1, index + 1, line, UndefText))]

\* lines.forEach of parseGeneric from index on
RECURSIVE GenericForEach(_, _, _)
GenericForEach(st, lines, index) ==
    IF index >= Len(lines) THEN st
    ELSE GenericForEach(GenericLine(st, lines, index), lines, index + 1)

parseGeneric(lines) == GenericForEach(ParserStart, lines, 0)

UpperCase ==
    << "A", "B", "C", "D", "E", "F", "G", "H", "I", "J", "K", "L", "M",
       "N", "O", "P", "Q", "R", "S", "T", "U", "V", "W", "X", "Y", "Z" >>

LowerCase ==
    << "a", "b", "c", "d", "e", "f", "g", "h", "i", "j", "k", "l", "m",
       "n", "o", "p", "q", "r", "s", "t", "u", "v", "w", "x", "y", "z" >>

\* String.prototype.toLowerCase
toLowerCase(s) ==
    [k \in 1..Len(s) |->
        IF \E u \in 1..Len(UpperCase) : UpperCase[u] = s[k]
        THEN LowerCase[CHOOSE u \in 1..Len(UpperCase) : UpperCase[u] = s[k]]
        ELSE s[k]]

\* CodeParser.parse(code, language)
parse(code, language) ==
    LET lines == Split(code)
        tag == toLowerCase(language)
        st == IF tag \in { <<"j", "a", "v", "a", "s", "c", "r", "i", "p", "t">>, <<"j", "s", "x">>, <<"t", "y", "p", "e", "s", "c", "r", "i", "p", "t">>, <<"t", "s", "x">> }
              THEN parseJavaScriptLike(lines)
              ELSE IF tag = <<"p", "y", "t", "h", "o", "n">> THEN parsePython(lines)
              ELSE IF tag = <<"j", "a", "v", "a">> THEN parseJava(lines)
              ELSE parseGeneric(lines)
    IN [symbols |-> st.symbols, imports |-> st.imports, exports |-> st.exports,
        dependencies |-> st.dependencies, language |-> language]

\* ------------------------------------------------------------------------
\* One call of CodeParser.parse on a source text of a few lines
\* ------------------------------------------------------------------------
MaxSourceLines == 4     \* largest number of lines of a source text

Languages == { <<"t", "y", "p", "e", "s", "c", "r", "i", "p", "t">>, <<"P", "y", "t", "h", "o", "n">>, <<"j", "a", "v", "a">>, <<"t", "e", "x", "t">> }

\* the lines a source text of each language is made of
SourceLines(language) ==
    IF language = <<"t", "y", "p", "e", "s", "c", "r", "i", "p", "t">>
    THEN { <<"f", "u", "n", "c", "t", "i", "o", "n", SP, "f", "(", ")", SP, "{">>, <<"f", "u", "n", "c", "t", "i", "o", "n", SP, "g", "(", ")", ";">>, <<"c", "l", "a", "s", "s", SP, "C", SP, "{">>, <<"c", "l", "a", "s", "s", SP, "D">>,
           <<"{">>, <<"}">>, <<"c", "o", "n", "s", "t", SP, "v", SP, "=", SP, "1", ";">>, <<SP, SP, "x", "(", ")", ";">> }
    ELSE IF language = <<"P", "y", "t", "h", "o", "n">>
    THEN { <<"d", "e", "f", SP, "f", "(", ")", ":">>, <<"c", "l", "a", "s", "s", SP, "C", ":">>, <<SP, SP, "d", "e", "f", SP, "m", "(", ")", ":">>, <<>>,
           <<"i", "m", "p", "o", "r", "t", SP, "o", "s">>, <<"f", "r", "o", "m", SP, "a", SP, "i", "m", "p", "o", "r", "t", SP, "b">> }
    ELSE IF language = <<"j", "a", "v", "a">>
    THEN { <<"p", "u", "b", "l", "i", "c", SP, "c", "l", "a", "s", "s", SP, "C", SP, "{">>, <<SP, SP, "p", "u", "b", "l", "i", "c", SP, "v", "o", "i", "d", SP, "m", "(", ")", SP, "{">>,
           <<SP, SP, "p", "u", "b", "l", "i", "c", SP, "a", "b", "s", "t", "r", "a", "c", "t", SP, "v", "o", "i", "d", SP, "n", "(", ")", ";">>, <<"}">>, <<"i", "m", "p", "o", "r", "t", SP, "a", ".", "b", ";">> }
    ELSE { <<"f", "n", SP, "f">>, <<"x">>, <<"d", "e", "f", SP, "g">>, <<"f", "u", "n", "c", "t", "i", "o", "n", SP, "h">> }

Sources(language) ==
    { Join(ls) : ls \in SeqsUpTo(SourceLines(language), MaxSourceLines) }

ParseInit ==
    /\ PageIdle
    /\ ApplyIdle
    /\ ChangeIdle
    /\ DecodeIdle
    /\ OverlapIdle
    /\ DepsIdle
    /\ DiffIdle
    /\ HistoryIdle
    /\ pFn = "none"
    /\ pLang \in Languages
    /\ pCode \in Sources(pLang)
    /\ pOut = <<>>

\* CodeParser.parse(code, language)
CallParse ==
    /\ pFn = "none"
    /\ pOut' = parse(pCode, pLang)
    /\ pFn' = "parse"
    /\ UNCHANGED <<pLang, pCode, applyVars, pageVars, changeVars, decodeVars,
                   overlapVars, depVars, diffVars, historyVars>>

ParseNext == CallParse

SpecParse == ParseInit /\ [][ParseNext]_vars

\* ------------------------------------------------------------------------
\* C29: every symbol returned by parse, for every language branch and every
\* input text, has 1 <= startLine <= endLine <= the number of lines of the
\* input.
\* ------------------------------------------------------------------------
C29_SymbolRangeInFile ==
    pFn = "parse" =>
        \A k \in 1..Len(pOut.symbols) :
            /\ 1 <= pOut.symbols[k].startLine
            /\ pOut.symbols[k].startLine <= pOut.symbols[k].endLine
            /\ pOut.symbols[k].endLine <= Len(Split(pCode))

\* a Python text was parsed in which one declaration ends on its own line
\* before the end of the text and another stands on the last line
C29_Witness ==
    /\ pFn = "parse"
    /\ toLowerCase(pLang) = <<"p", "y", "t", "h", "o", "n">>
    /\ \E j, k \in 1..Len(pOut.symbols) :
         /\ pOut.symbols[j].endLine = pOut.symbols[j].startLine
         /\ pOut.symbols[j].endLine < Len(Split(pCode))
         /\ pOut.symbols[k].startLine = Len(Split(pCode))
         /\ pOut.symbols[k].endLine = Len(Split(pCode))

\* ------------------------------------------------------------------------
\* Notions the claims about the symbol extractor are stated in
\* ------------------------------------------------------------------------
\* the characters of lines s..e, one line after the other
CharsOf(lines, s, e) == Flatten(SubSeq(lines, s, e))

\* opening minus closing braces among the first k characters of text
NetBraces(text, k) ==
    Cardinality({ j \in 1..k : text[j] = "{" }) - Cardinality({ j \in 1..k : text[j] = "}" })

\* counted from the start of line s, the net brace count is zero at the end
\* of line e and was positive before
ReturnsToZero(lines, s, e) ==
    LET text == CharsOf(lines, s, e)
    IN /\ NetBraces(text, Len(text)) = 0
       /\ \E k \in 1..Len(text) : NetBraces(text, k) > 0

\* the first such line, the line count when there is none
BalancedEnd(lines, s) ==
    LET ends == { e \in s..Len(lines) : ReturnsToZero(lines, s, e) }
    IN IF ends = {} THEN Len(lines) ELSE CHOOSE e \in ends : \A x \in ends : e <= x

BraceLanguages == { <<"t", "y", "p", "e", "s", "c", "r", "i", "p", "t">>, <<"j", "a", "v", "a">> }

BlockTypes == {"function", "class", "interface"}

\* ------------------------------------------------------------------------
\* C24: for a declaration on line s of a brace-delimited language the
\* reported endLine is the first line e >= s at which the net count of
\* opening minus closing braces accumulated from line s returns to zero
\* after having been positive; if there is no such line, endLine is the
\* file's line count. For "function f() {", "  x();", "}" from line 1,
\* endLine = 3.
\* ------------------------------------------------------------------------
C24_BlockEndIsBalancePoint ==
    (pFn = "parse" /\ toLowerCase(pLang) \in BraceLanguages) =>
        /\ \A k \in 1..Len(pOut.symbols) :
             pOut.symbols[k].type \in BlockTypes =>
                 pOut.symbols[k].endLine =
                     BalancedEnd(Split(pCode), pOut.symbols[k].startLine)
        /\ pCode = Join(<<<<"f", "u", "n", "c", "t", "i", "o", "n", SP, "f", "(", ")", SP, "{">>, <<SP, SP, "x", "(", ")", ";">>, <<"}">>>>) =>
             pOut.symbols[1].endLine = 3

\* the symbols of the given types, in the order of the result
SymbolsOf(ctx, types) == SelectSeq(ctx.symbols, LAMBDA y : y.type \in types)

\* line L lies in the body of the class declared on line s: it comes after a
\* line up to which the class's braces were opened, and not after the line
\* that closes them
InBody(lines, s, L) ==
    /\ s < L
    /\ L <= BalancedEnd(lines, s)
    /\ \E k \in 1..Len(CharsOf(lines, s, L - 1)) :
          NetBraces(CharsOf(lines, s, L - 1), k) > 0

\* line L comes after the line that closes the braces of the class declared
\* on line s
AfterBody(lines, s, L) ==
    /\ ReturnsToZero(lines, s, BalancedEnd(lines, s))
    /\ L > BalancedEnd(lines, s)

\* ------------------------------------------------------------------------
\* C25: in a curly-brace file the scope set by a class declaration stays on
\* every function and variable symbol found inside the class's body and is
\* cleared when bracket depth returns to the depth at which the class was
\* opened: a symbol declared after the class's closing brace carries no
\* scope, also when the class is nested at depth greater than zero, and a
\* class whose opening brace is on the line after the declaration still
\* scopes its members. (Stated for the files with one class declaration.)
\* ------------------------------------------------------------------------
C25_ScopeFollowsClassBody ==
    (/\ pFn = "parse"
     /\ pLang = <<"t", "y", "p", "e", "s", "c", "r", "i", "p", "t">>
     /\ Len(SymbolsOf(pOut, {"class"})) = 1)
    => LET lines == Split(pCode)
           c == SymbolsOf(pOut, {"class"})[1]
           members == SymbolsOf(pOut, {"function", "variable"})
       IN \A k \in 1..Len(members) :
            /\ InBody(lines, c.startLine, members[k].startLine) =>
                  members[k].scope = c.name
            /\ AfterBody(lines, c.startLine, members[k].startLine) =>
                  members[k].scope = UndefText

\* ------------------------------------------------------------------------
\* multiFileManager.ts: analyzeDependencies, resolveRelativePath and
\* findAffectedFiles, on the contexts CodeParser.parse gives for two files
\* ------------------------------------------------------------------------
\* Array.prototype.pop: the array without its last element
Pop(arr) == IF arr = <<>> THEN <<>> ELSE SubSeq(arr, 1, Len(arr) - 1)

\* the for loop over relParts
RECURSIVE ResolveParts(_, _)
ResolveParts(fromParts, relParts) ==
    IF relParts = <<>> THEN fromParts
    ELSE ResolveParts(IF Head(relParts) = <<".", ".">> THEN Pop(fromParts)
                      ELSE IF Head(relParts) # <<".">> THEN Append(fromParts, Head(relParts))
                      ELSE fromParts,
                      Tail(relParts))

resolveRelativePath(fromPath, relativePath) ==
    JoinBy(ResolveParts(Pop(SplitBy(fromPath, "/")), SplitBy(relativePath, "/")), "/")

\* String.prototype.startsWith
startsWith(s, prefix) == LiteralAt(s, 1, prefix)

\* String.prototype.includes
includes(s, part) == \E k \in 1..(Len(s) + 1) : LiteralAt(s, k, part)

\* the callback of context.dependencies.forEach: what one dependency adds
\* to fileDeps (an empty resolved path is falsy and is not pushed)
FileDep(filePath, dep) ==
    IF startsWith(dep, <<".">>)
    THEN LET resolved == resolveRelativePath(filePath, dep)
         IN IF resolved # <<>> THEN <<resolved>> ELSE <<>>
    ELSE <<dep>>

\* analyzeDependencies: the entries of the Map it returns, in insertion order
analyzeDependencies(fileContexts) ==
    [f \in 1..Len(fileContexts) |->
        [path |-> fileContexts[f].path,
         deps |-> Flatten([k \in 1..Len(fileContexts[f].context.dependencies) |->
                              FileDep(fileContexts[f].path,
                                      fileContexts[f].context.dependencies[k])])]]

\* findAffectedFiles(targetFile, symbolName, fileContexts)
findAffectedFiles(targetFile, symbolName, fileContexts) ==
    LET hasReference(e) ==
            \E i \in 1..Len(e.context.imports) :
                \/ includes(e.context.imports[i], symbolName)
                \/ includes(e.context.imports[i], targetFile)
        affected == SelectSeq(fileContexts,
                              LAMBDA e : e.path # targetFile /\ hasReference(e))
    IN [k \in 1..Len(affected) |-> affected[k].path]

MaxImports == 2     \* largest number of import lines of a file

MaxOps == 6         \* largest number of operations one run of the history records

FilePaths == { <<"b", ".", "t", "s">>, <<"s", "/", "a", ".", "t", "s">>, <<"s", "/", "b", ".", "t", "s">> }

\* the module paths a file imports from
ImportPaths == { <<".", "/", "b", ".", "t", "s">>, <<".", ".", "/", "b", ".", "t", "s">>, <<".", ".">>, <<"l", "i", "b">> }

ImportLine(path) == <<"i", "m", "p", "o", "r", "t", SP, "x", SP, "f", "r", "o", "m", SP, "'">> \o path \o <<"'">>

\* the text of a file that imports from the given paths, one import per line
ImportSource(paths) == Join([k \in 1..Len(paths) |-> ImportLine(paths[k])])

\* a file at each path importing from up to MaxImports paths, as parse reads it
Contexts ==
    { [path |-> p, context |-> parse(ImportSource(i), <<"t", "y", "p", "e", "s", "c", "r", "i", "p", "t">>)] :
        p \in FilePaths, i \in {<<>>} \cup SeqsUpTo(ImportPaths, MaxImports) }

\* two files: the first imports from up to MaxImports paths, the second from
\* at most one
ContextPairs ==
    { x \in Contexts \X Contexts :
        x[1].path # x[2].path /\ Len(x[2].context.imports) <= 1 }

SymbolNames == { <<"f", "o", "o">>, <<"b">> }

DepsInit ==
    /\ PageIdle
    /\ ApplyIdle
    /\ ChangeIdle
    /\ DecodeIdle
    /\ OverlapIdle
    /\ ParseIdle
    /\ DiffIdle
    /\ HistoryIdle
    /\ gContexts \in ContextPairs
    /\ gTarget \in FilePaths
    /\ gSymbol \in SymbolNames
    /\ gDone = {}
    /\ gGraph = <<>>
    /\ gAffected = <<>>

\* MultiFileManager.analyzeDependencies(fileContexts)
CallAnalyzeDependencies ==
    /\ "analyzeDependencies" \notin gDone
    /\ gGraph' = analyzeDependencies(gContexts)
    /\ gDone' = gDone \cup {"analyzeDependencies"}
    /\ UNCHANGED <<gContexts, gTarget, gSymbol, gAffected, applyVars, pageVars,
                   changeVars, decodeVars, overlapVars, parseVars, diffVars,
                   historyVars>>

\* MultiFileManager.findAffectedFiles(targetFile, symbolName, fileContexts)
CallFindAffectedFiles ==
    /\ "findAffectedFiles" \notin gDone
    /\ gAffected' = findAffectedFiles(gTarget, gSymbol, gContexts)
    /\ gDone' = gDone \cup {"findAffectedFiles"}
    /\ UNCHANGED <<gContexts, gTarget, gSymbol, gGraph, applyVars, pageVars,
                   changeVars, decodeVars, overlapVars, parseVars, diffVars,
                   historyVars>>

DepsNext == CallAnalyzeDependencies \/ CallFindAffectedFiles

SpecDeps == DepsInit /\ [][DepsNext]_vars

\* ------------------------------------------------------------------------
\* Notions the claims about the dependency analysis are stated in
\* ------------------------------------------------------------------------
RECURSIVE Walk(_, _)
\* the directory dir after the segments segs: one segment removed per '..',
\* '.' ignored, every other segment appended
Walk(dir, segs) ==
    IF segs = <<>> THEN dir
    ELSE LET seg == Head(segs)
         IN Walk(IF seg = <<".", ".">> THEN SubSeq(dir, 1, Max(Len(dir) - 1, 0))
                 ELSE IF seg = <<".">> THEN dir
                 ELSE dir \o <<seg>>,
                 Tail(segs))

\* the importing file's directory, and the path reached from it
LexicalTarget(file, import) ==
    LET segments == SplitBy(file, "/")
        directory == SubSeq(segments, 1, Len(segments) - 1)
    IN JoinBy(Walk(directory, SplitBy(import, "/")), "/")

IsRelative(import) == import # <<>> /\ import[1] = "."

\* ------------------------------------------------------------------------
\* C26: the dependency graph has one entry per input file and, for each
\* file, one target per recorded dependency, in order: an external import
\* unchanged, a relative import replaced by the path obtained lexically from
\* the importing file's directory; no dependency is dropped.
\* ------------------------------------------------------------------------
C26_OneTargetPerDependency ==
    "analyzeDependencies" \in gDone =>
        /\ Len(gGraph) = Len(gContexts)
        /\ \A f \in 1..Len(gGraph) :
             LET recorded == gContexts[f].context.dependencies
             IN /\ gGraph[f].path = gContexts[f].path
                /\ Len(gGraph[f].deps) = Len(recorded)
                /\ \A k \in 1..Len(recorded) :
                     gGraph[f].deps[k] =
                         IF IsRelative(recorded[k])
                         THEN LexicalTarget(gContexts[f].path, recorded[k])
                         ELSE recorded[k]

\* ------------------------------------------------------------------------
\* C27: findAffectedFiles returns exactly the files of contexts, other than
\* targetFile, that have a recorded import containing symbolName or
\* targetFile as text; in particular a file whose dependency-graph entry
\* resolves to targetFile is among the files returned.
\* ------------------------------------------------------------------------
C27_AffectedFiles ==
    "findAffectedFiles" \in gDone =>
        LET mentions(e) ==
                \E i \in 1..Len(e.context.imports) :
                    \E k \in 1..(Len(e.context.imports[i]) + 1) :
                        \/ LiteralAt(e.context.imports[i], k, gSymbol)
                        \/ LiteralAt(e.context.imports[i], k, gTarget)
            returned == { gAffected[k] : k \in 1..Len(gAffected) }
            graph == analyzeDependencies(gContexts)
        IN /\ returned = { gContexts[f].path : f \in { x \in 1..Len(gContexts) :
                              /\ gContexts[x].path # gTarget
                              /\ mentions(gContexts[x]) } }
           /\ \A f \in 1..Len(gContexts) :
                (/\ gContexts[f].path # gTarget
                 /\ \E k \in 1..Len(graph[f].deps) : graph[f].deps[k] = gTarget)
                => gContexts[f].path \in returned

\* ------------------------------------------------------------------------
\* aiPromptBuilder.ts applyDiff, and the three line-based appliers called on
\* one buffer and one unified diff
\* ------------------------------------------------------------------------
InsertHunkDesc(sorted, h) ==
    LET keep == {k \in 1..Len(sorted) : sorted[k].oldStart >= h.oldStart}
        n == IF keep = {} THEN 0 ELSE CHOOSE k \in keep : \A j \in keep : j <= k
    IN SubSeq(sorted, 1, n) \o <<h>> \o SubSeq(sorted, n + 1, Len(sorted))

RECURSIVE SortHunksDescFrom(_, _)
SortHunksDescFrom(hunks, acc) ==
    IF hunks = <<>> THEN acc
    ELSE SortHunksDescFrom(Tail(hunks), InsertHunkDesc(acc, Head(hunks)))

\* [...diff.hunks].sort((a, b) => b.oldStart - a.oldStart), a stable sort
SortHunksDesc(hunks) == SortHunksDescFrom(hunks, <<>>)

\* diffLines.filter(line => line.startsWith('+')).map(line => line.substring(1))
PlusLines(diffLines) ==
    LET sel == SelectSeq(diffLines, LAMBDA l : Len(l) > 0 /\ l[1] = "+")
    IN [i \in 1..Len(sel) |-> Tail(sel[i])]

\* the for loop of applyDiff over sortedHunks
RECURSIVE applyDiffLoop(_, _)
applyDiffLoop(result, sortedHunks) ==
    IF sortedHunks = <<>> THEN result
    ELSE LET hunk == Head(sortedHunks)
         IN applyDiffLoop(Splice(result, hunk.oldStart - 1, hunk.oldLines,
                                 PlusLines(hunk.lines)),
                          Tail(sortedHunks))

\* AIPromptBuilder.applyDiff(code, diff)
applyDiff(code, diff) == Join(applyDiffLoop(Split(code), SortHunksDesc(diff.hunks)))

\* the hunks of a diff: a replaced line, a removed line, two added lines
DiffHunks ==
    { [oldStart |-> s, oldLines |-> n, lines |-> l] :
        s \in 1..2, n \in 0..2,
        l \in { << <<"-", "a">>, <<"+", "X">> >>,
                << <<"-", "a">> >>,
                << <<"+", "X">>, <<"+", "Y">> >> } }

UnifiedDiffs ==
    { [fileName |-> "A", hunks |-> h] : h \in SeqsUpTo(DiffHunks, MaxEdits) }

Appliers == {"applyDiff", "createPreview", "MultiFileManager.applyEdits"}

DiffInit ==
    /\ PageIdle
    /\ ApplyIdle
    /\ ChangeIdle
    /\ DecodeIdle
    /\ OverlapIdle
    /\ ParseIdle
    /\ DepsIdle
    /\ HistoryIdle
    /\ fCode \in Buffers
    /\ fDiff \in UnifiedDiffs
    /\ fDone = {}
    /\ fResult = [a \in Appliers |-> <<>>]

\* AIPromptBuilder.applyDiff(code, diff)
CallApplyDiff ==
    /\ "applyDiff" \notin fDone
    /\ fResult' = [fResult EXCEPT !["applyDiff"] = applyDiff(fCode, fDiff)]
    /\ fDone' = fDone \cup {"applyDiff"}
    /\ UNCHANGED <<fCode, fDiff, applyVars, pageVars, changeVars, decodeVars,
                   overlapVars, parseVars, depVars, historyVars>>

\* AIPromptBuilder.createPreview(code, AIPromptBuilder.diffToPendingEdits([diff]))
CallCreatePreviewOfDiff ==
    /\ "createPreview" \notin fDone
    /\ \E stamps \in Stamps(1) :
         fResult' = [fResult EXCEPT !["createPreview"] =
                        createPreview(fCode, diffToPendingEdits(<<fDiff>>, stamps))]
    /\ fDone' = fDone \cup {"createPreview"}
    /\ UNCHANGED <<fCode, fDiff, applyVars, pageVars, changeVars, decodeVars,
                   overlapVars, parseVars, depVars, historyVars>>

\* MultiFileManager.applyEdits(code, edits), the edits having the ranges and
\* the new code of the pending edits of the diff
CallApplyEditsOfDiff ==
    /\ "MultiFileManager.applyEdits" \notin fDone
    /\ \E stamps \in Stamps(1) :
         fResult' = [fResult EXCEPT !["MultiFileManager.applyEdits"] =
                        MFM_applyEdits(fCode, diffToPendingEdits(<<fDiff>>, stamps))]
    /\ fDone' = fDone \cup {"MultiFileManager.applyEdits"}
    /\ UNCHANGED <<fCode, fDiff, applyVars, pageVars, changeVars, decodeVars,
                   overlapVars, parseVars, depVars, historyVars>>

DiffNext == CallApplyDiff \/ CallCreatePreviewOfDiff \/ CallApplyEditsOfDiff

SpecDiff == DiffInit /\ [][DiffNext]_vars

AppliedCodes == { <<"x">>, <<"y">> }

\* what the user types into the editor
TypedTexts == { <<"z">> }

\* the buffer and the history as one operation finds or leaves them
Snapshot == [content |-> fileContent, history |-> contentHistory, index |-> historyIndex]

Record(op, after) == Append(hLog, [op |-> op, before |-> Snapshot, after |-> after])

\* contentHistory.slice(0, historyIndex + 1) followed by push(fileContent)
PushHistory(history, index, content) ==
    LET end == IF index + 1 > Len(history) THEN Len(history) ELSE index + 1
    IN Append(SubSeq(history, 1, end), content)

\* the index the undo shortcut leaves
UndoIndexKept(index) == index

UndoIndex(index) == index - 1

HistoryInit ==
    /\ PageIdle
    /\ ApplyIdle
    /\ ChangeIdle
    /\ DecodeIdle
    /\ OverlapIdle
    /\ ParseIdle
    /\ DepsIdle
    /\ DiffIdle
    /\ HistoryIdle

\* onApplyCode(code) of the assistant panel
OnApplyCode(code) ==
    /\ Len(hLog) < MaxOps
    /\ IF selectedFile # "none"
       THEN LET newHistory == PushHistory(contentHistory, historyIndex, fileContent)
            IN /\ contentHistory' = newHistory
               /\ historyIndex' = Len(newHistory) - 1
               /\ fileContent' = code
               /\ hLog' = Record("apply", [content |-> code, history |-> newHistory,
                                           index |-> Len(newHistory) - 1])
       ELSE /\ hLog' = Record("refused", Snapshot)
            /\ UNCHANGED <<contentHistory, historyIndex, fileContent>>
    /\ UNCHANGED <<selectedFile, pendingEdits, editorRef, stagedFor, last, applyVars,
                   changeVars, decodeVars, overlapVars, parseVars, depVars, diffVars>>

\* handleKeyDown for Ctrl+Z / Cmd+Z
UndoKeyDown ==
    /\ Len(hLog) < MaxOps
    /\ IF historyIndex >= 0 /\ historyIndex < Len(contentHistory)
       THEN LET previousContent == contentHistory[historyIndex + 1]
            IN /\ fileContent' = previousContent
               /\ historyIndex' = UndoIndex(historyIndex)
               /\ hLog' = Record("undo", [content |-> previousContent,
                                          history |-> contentHistory,
                                          index |-> UndoIndex(historyIndex)])
       ELSE /\ hLog' = Record("undo", Snapshot)
            /\ UNCHANGED <<fileContent, historyIndex>>
    /\ UNCHANGED <<contentHistory, selectedFile, pendingEdits, editorRef, stagedFor, last,
                   applyVars, changeVars, decodeVars, overlapVars, parseVars, depVars,
                   diffVars>>

\* handleFileSelect(path), the handle found and read
HistoryFileSelect(path) ==
    /\ Len(hLog) < MaxOps
    /\ selectedFile' = path
    /\ fileContent' = FileText(path)
    /\ hLog' = Record("select", [content |-> FileText(path), history |-> contentHistory,
                                 index |-> historyIndex])
    /\ UNCHANGED <<contentHistory, historyIndex, pendingEdits, editorRef, stagedFor, last,
                   applyVars, changeVars, decodeVars, overlapVars, parseVars, depVars,
                   diffVars>>

\* handleRename / handleDelete of the selected file
ClearSelection ==
    /\ Len(hLog) < MaxOps
    /\ selectedFile # "none"
    /\ selectedFile' = "none"
    /\ fileContent' = <<>>
    /\ hLog' = Record("clear", [content |-> <<>>, history |-> contentHistory,
                                index |-> historyIndex])
    /\ UNCHANGED <<contentHistory, historyIndex, pendingEdits, editorRef, stagedFor, last,
                   applyVars, changeVars, decodeVars, overlapVars, parseVars, depVars,
                   diffVars>>

\* onChange={setFileContent} of the editor, rendered while a file is selected
EditorOnChange(text) ==
    /\ Len(hLog) < MaxOps
    /\ selectedFile # "none"
    /\ fileContent' = text
    /\ hLog' = Record("change", [content |-> text, history |-> contentHistory,
                                 index |-> historyIndex])
    /\ UNCHANGED <<contentHistory, historyIndex, selectedFile, pendingEdits, editorRef,
                   stagedFor, last, applyVars, changeVars, decodeVars, overlapVars,
                   parseVars, depVars, diffVars>>

HistoryNext ==
    \/ \E code \in AppliedCodes : OnApplyCode(code)
    \/ UndoKeyDown
    \/ \E path \in Files : HistoryFileSelect(path)
    \/ ClearSelection
    \/ \E text \in TypedTexts : EditorOnChange(text)

SpecHistory == HistoryInit /\ [][HistoryNext]_vars

\* operations s .. s + 2k - 1 of the run are k applies followed by k undos
AppliesThenUndos(s, k) ==
    /\ k >= 1
    /\ s >= 1
    /\ s + 2 * k - 1 <= Len(hLog)
    /\ \A n \in s..(s + k - 1) : hLog[n].op = "apply"
    /\ \A n \in (s + k)..(s + 2 * k - 1) : hLog[n].op = "undo"

\* ------------------------------------------------------------------------
\* C30: after any sequence of apply-code and undo operations historyIndex
\* stays within -1 .. length(contentHistory) - 1; k consecutive undos issued
\* after k consecutive apply-code operations restore the buffer to the
\* content it had before the first of those applies; an undo with no history
\* left changes nothing.
\* ------------------------------------------------------------------------
C30_ApplyUndoHistory ==
    /\ historyIndex \in -1..(Len(contentHistory) - 1)
    /\ \A s \in 1..Len(hLog) : \A k \in 1..Len(hLog) :
         AppliesThenUndos(s, k) =>
             hLog[s + 2 * k - 1].after.content = hLog[s].before.content
    /\ \A n \in 1..Len(hLog) :
         (hLog[n].op = "undo" /\ hLog[n].before.index = -1) =>
             hLog[n].after = hLog[n].before

\* two applies of different code undone by two undos, and one undo more
C30_Witness ==
    /\ Len(hLog) = MaxOps
    /\ AppliesThenUndos(Len(hLog) - 4, 2)
    /\ hLog[Len(hLog) - 4].after.content # hLog[Len(hLog) - 3].after.content
    /\ hLog[Len(hLog) - 4].before.content # <<>>
    /\ hLog[Len(hLog)].op = "undo"
    /\ hLog[Len(hLog)].before.index = -1
    /\ fileContent = hLog[Len(hLog) - 4].before.content

====
